---- MODULE Spec2Model ----
\* Verification model of netlens: the Capture Store (stores/requests), the HAR
\* parser and its body loader, the live capture listener, the replay executor
\* and the response body view of the request drawer.

EXTENDS Integers, Sequences, FiniteSets, TLC

------------------------------------------------------------------------------
\* Bounds of the model

\* ids handed out by generateId (records built, admitted or not)
MaxIds == 2
\* capacities setMaxRequests is called with: 1..MaxCapacity
MaxCapacity == 2
\* live traffic events delivered to the listener
MaxEvents == 2
\* records handed to addRequest where runs longer than the capacity are studied
MaxRun == 3

------------------------------------------------------------------------------
\* Values

NULL == "null"
UNDEFINED == "undefined"
\* the null of an id-valued field (ids are the positive numbers)
NullId == 0

MAX_BODY_SIZE == 500 * 1024

\* Text is a tuple of one-character strings.
UpperChars == <<"A","B","C","D","E","F","G","H","I","J","K","L","M",
                "N","O","P","Q","R","S","T","U","V","W","X","Y","Z">>
LowerChars == <<"a","b","c","d","e","f","g","h","i","j","k","l","m",
                "n","o","p","q","r","s","t","u","v","w","x","y","z">>
DigitChars == <<"0","1","2","3","4","5","6","7","8","9">>

toLowerCaseChar(c) ==
  IF \E k \in 1..Len(UpperChars) : UpperChars[k] = c
    THEN LowerChars[CHOOSE k \in 1..Len(UpperChars) : UpperChars[k] = c]
    ELSE c

toLowerCase(s) == [i \in 1..Len(s) |-> toLowerCaseChar(s[i])]

includes(s, q) ==
  \E i \in 0..(Len(s) - Len(q)) : SubSeq(s, i + 1, i + Len(q)) = q

RECURSIVE trimStart(_)
trimStart(s) ==
  IF s /= <<>> /\ Head(s) = " " THEN trimStart(Tail(s)) ELSE s

RECURSIVE trimEnd(_)
trimEnd(s) ==
  IF s /= <<>> /\ s[Len(s)] = " " THEN trimEnd(SubSeq(s, 1, Len(s) - 1)) ELSE s

trim(s) == trimEnd(trimStart(s))

RECURSIVE toString(_)
toString(n) ==
  IF n < 10 THEN <<DigitChars[n + 1]>>
  ELSE toString(n \div 10) \o <<DigitChars[(n % 10) + 1]>>

\* Array.prototype.slice(start, end): negative indices count from the end.
sliceIndex(len, k) == IF k < 0 THEN (IF len + k < 0 THEN 0 ELSE len + k)
                      ELSE (IF k > len THEN len ELSE k)
slice(s, start, end) ==
  SubSeq(s, sliceIndex(Len(s), start) + 1, sliceIndex(Len(s), end))
sliceFrom(s, start) == slice(s, start, Len(s))

Range(s) == {s[i] : i \in 1..Len(s)}
filter(s, Test(_)) == SelectSeq(s, Test)
Ids(s) == {s[i].id : i \in 1..Len(s)}

------------------------------------------------------------------------------
\* State

VARIABLES
  \* useRequestsStore
  requests, favorites, selected, isPaused, maxRequests, searchQuery,
  \* the ids generateId has handed out: the next one is nextId
  nextId,
  \* useUIStore.activeRequestId and drawerTab (the drawer is open while
  \* activeRequestId is an id) and the state of the response tab's BodyDisplay
  activeRequestId, drawerTab, fullBody, isLoading,
  \* settings read by the capture hook
  captureScope, exclusionPatterns,
  \* startCapture's closure: isCapturing (its listeners are registered while
  \* it is true), pageUrl, and whether getInspectedPageUrl is still pending
  isCapturing, pageUrl, pagePending,
  \* handleRequestFinished calls suspended at getContent and the number of
  \* events delivered so far; replayRequest calls suspended at fetch
  inflight, evCount, replays,
  \* ReplayEditor's error state
  replayError,
  \* history, not program state: for each record built, the traffic event
  \* it came from and what getContent called back with
  origin,
  \* history of the run, not program state: what the last store operation
  \* did, the ids admitted by the current unbroken run of addRequest calls,
  \* and the ids of the records a paused store dropped
  lastOp, run, dropped,
  \* history, not program state: what the replayRequest call that settled
  \* last returned, <<>> before any has
  replayResult,
  \* the sanitizer: the text and the rule list given to sanitizeValue, what it
  \* returned (<<>> before the call) and what it returned for its own result;
  \* the record given to sanitizeRequest and what it returned
  inputValue, inputRules, sanitizedValue, resanitizedValue, inputRequest,
  sanitizedRequest,
  \* useSettingsStore.sanitizationRules, and the number of rule actions
  \* called so far (history, not program state)
  sanitizationRules, ruleActions,
  \* useSettingsStore.maxRequests
  settingsMaxRequests,
  \* useChatStore: messages, isStreaming, currentStreamingId (<<>> for null,
  \* <<id>> otherwise) and error (<<>> for null, <<text>> otherwise); the
  \* number generateId builds the next message id from
  messages, isStreaming, currentStreamingId, error, nextMessageId,
  \* useSettingsStore.hasAcceptedPrivacyWarning, useUIStore.isPrivacyWarningOpen
  hasAcceptedPrivacyWarning, isPrivacyWarningOpen,
  \* useNetLensChat: abortControllerRef.current of each component that calls
  \* the hook ("none" for null, "live", "aborted"), and the component whose
  \* sendMessage call is awaiting its stream ("none" when no call is)
  abortController, streamBy,
  \* history, not program state: the streamText calls made so far, the ids of
  \* the messages that were streaming when stop was invoked, the ids of the
  \* messages whose stream threw an error that is no abort, and the last
  \* operation on the chat
  modelCalls, stoppedIds, failedIds, chatOp,
  \* the browser: the exchanges of the inspected page that have finished, in
  \* the order they finished (what getHAR hands over), and the URL of the
  \* inspected page
  harLog, inspectedUrl,
  \* the getExistingRequests call of useNetworkCapture: where it is ("idle"
  \* before the mount, "getHAR" and "eval" while it waits for the callback of
  \* getHAR and of the page URL, "adding" while its result is added to the
  \* store, "done"), the log getHAR handed over, and the entries still to add
  historyPc, historyLog, historyQueue,
  \* history, not program state: for each record built from the log, the
  \* place of its exchange in the log
  historyOrigin,
  \* the context builder: the requests given to buildContext and the text it
  \* returned (<<>> before the call)
  contextRequests, context,
  \* the text and the budget given to truncateContext, and the text it
  \* returned (<<>> before the call)
  contextText, tokenBudget, truncatedContext,
  \* the classifier: the request data given to it, and the GraphQL flag it
  \* gets as a captured and as a replayed record (<<>> before the call)
  exchange, capturedIsGraphQL, replayedIsGraphQL

storeVars == <<requests, favorites, selected, isPaused, maxRequests, searchQuery>>
drawerVars == <<activeRequestId, drawerTab, fullBody, isLoading>>
captureVars == <<captureScope, exclusionPatterns, isCapturing, pageUrl, pagePending,
                 inflight, evCount, replays, replayError, origin>>
histVars == <<lastOp, run, dropped, replayResult>>
sanitizerVars == <<inputValue, inputRules, sanitizedValue, resanitizedValue,
                   inputRequest, sanitizedRequest>>
settingsVars == <<sanitizationRules, ruleActions, settingsMaxRequests>>
contextVars == <<contextRequests, context, contextText, tokenBudget, truncatedContext>>
classifierVars == <<exchange, capturedIsGraphQL, replayedIsGraphQL>>
chatStoreVars == <<messages, isStreaming, currentStreamingId, error>>
hookVars == <<abortController, streamBy, modelCalls, stoppedIds, failedIds>>
privacyVars == <<hasAcceptedPrivacyWarning, isPrivacyWarningOpen>>
chatVars == <<chatStoreVars, nextMessageId, privacyVars, hookVars, chatOp>>
panelVars == <<harLog, inspectedUrl, historyPc, historyLog, historyQueue,
               historyOrigin>>
libVars == <<sanitizerVars, settingsVars, contextVars, classifierVars, chatVars,
             panelVars>>
vars == <<requests, favorites, selected, isPaused, maxRequests, searchQuery,
          nextId, activeRequestId, drawerTab, fullBody, isLoading,
          captureScope, exclusionPatterns, isCapturing, pageUrl, pagePending,
          inflight, evCount, replays, replayError, origin,
          lastOp, run, dropped, replayResult, libVars>>

------------------------------------------------------------------------------
\* HAR entries and the records parseHarEntry builds from them

GET == <<"G","E","T">>
POST == <<"P","O","S","T">>
UrlA == <<"h",":","/","/","a","/","x">>
UrlB == <<"h",":","/","/","b","/","y">>

BodySizes == {MAX_BODY_SIZE - 1, MAX_BODY_SIZE, MAX_BODY_SIZE + 1}

\* what entry.getContent hands to its callback
ContentOutcomes == {UNDEFINED, "data"}

\* entries the store operations are exercised with
StoreEntries ==
  { [method |-> GET, url |-> UrlA, status |-> 200, size |-> MAX_BODY_SIZE - 1],
    [method |-> POST, url |-> UrlB, status |-> 404, size |-> MAX_BODY_SIZE + 1] }
StoreContent == "data"

\* variant: a body of exactly MAX_BODY_SIZE is not loaded inline
shouldLoadBodyBelowLimit(entry) == entry.size < MAX_BODY_SIZE

shouldLoadBody(entry) == entry.size <= MAX_BODY_SIZE

\* content: the value getContent calls back with (read only when the body is
\* loaded inline); id: the value generateId returns
parseHarEntry(entry, content, id) ==
  LET load == shouldLoadBody(entry)
      resolved == load /\ content /= UNDEFINED
  IN [ id |-> id,
       method |-> entry.method,
       url |-> entry.url,
       status |-> entry.status,
       responseBody |-> IF resolved THEN content ELSE NULL,
       responseBodySize |-> entry.size,
       isReplayed |-> FALSE,
       hasFullResponseBody |-> resolved,
       getFullResponseBody |-> ~load ]

------------------------------------------------------------------------------
\* useRequestsStore

\* variant: eviction without the cleanup of favorites and selected
addRequestWithoutCleanup(request) ==
  IF isPaused THEN UNCHANGED storeVars
  ELSE
    LET newRequests == Append(requests, request) IN
    IF Len(newRequests) > maxRequests
    THEN
      /\ requests' = sliceFrom(newRequests, -maxRequests)
      /\ UNCHANGED <<favorites, selected, isPaused, maxRequests, searchQuery>>
    ELSE
      /\ requests' = newRequests
      /\ UNCHANGED <<favorites, selected, isPaused, maxRequests, searchQuery>>

\* variant: no isPaused check
addRequestWhilePaused(request) ==
  LET newRequests == Append(requests, request) IN
  IF Len(newRequests) > maxRequests
  THEN
    LET removed == slice(newRequests, 0, Len(newRequests) - maxRequests)
        removedIds == Ids(removed)
    IN /\ requests' = sliceFrom(newRequests, -maxRequests)
       /\ favorites' = {id \in favorites : id \notin removedIds}
       /\ selected' = {id \in selected : id \notin removedIds}
       /\ UNCHANGED <<isPaused, maxRequests, searchQuery>>
  ELSE
    /\ requests' = newRequests
    /\ UNCHANGED <<favorites, selected, isPaused, maxRequests, searchQuery>>

\* variant: the new record is put at the front
addRequestAtFront(request) ==
  IF isPaused THEN UNCHANGED storeVars
  ELSE
    LET newRequests == <<request>> \o requests IN
    IF Len(newRequests) > maxRequests
    THEN
      LET removed == slice(newRequests, 0, Len(newRequests) - maxRequests)
          removedIds == Ids(removed)
      IN /\ requests' = sliceFrom(newRequests, -maxRequests)
         /\ favorites' = {id \in favorites : id \notin removedIds}
         /\ selected' = {id \in selected : id \notin removedIds}
         /\ UNCHANGED <<isPaused, maxRequests, searchQuery>>
    ELSE
      /\ requests' = newRequests
      /\ UNCHANGED <<favorites, selected, isPaused, maxRequests, searchQuery>>

addRequest(request) ==
  IF isPaused THEN UNCHANGED storeVars
  ELSE
    LET newRequests == Append(requests, request) IN
    IF Len(newRequests) > maxRequests
    THEN
      LET removed == slice(newRequests, 0, Len(newRequests) - maxRequests)
          removedIds == Ids(removed)
      IN /\ requests' = sliceFrom(newRequests, -maxRequests)
         /\ favorites' = {id \in favorites : id \notin removedIds}
         /\ selected' = {id \in selected : id \notin removedIds}
         /\ UNCHANGED <<isPaused, maxRequests, searchQuery>>
    ELSE
      /\ requests' = newRequests
      /\ UNCHANGED <<favorites, selected, isPaused, maxRequests, searchQuery>>

removeRequest(id) ==
  /\ requests' = SelectSeq(requests, LAMBDA r : r.id /= id)
  /\ favorites' = favorites \ {id}
  /\ selected' = selected \ {id}
  /\ UNCHANGED <<isPaused, maxRequests, searchQuery>>

clearRequests ==
  /\ requests' = <<>>
  /\ favorites' = {}
  /\ selected' = {}
  /\ UNCHANGED <<isPaused, maxRequests, searchQuery>>

toggleSelected(id) ==
  /\ selected' = IF id \in selected THEN selected \ {id} ELSE selected \cup {id}
  /\ UNCHANGED <<requests, favorites, isPaused, maxRequests, searchQuery>>

getFilteredRequests ==
  IF trim(searchQuery) = <<>> THEN requests
  ELSE
    LET query == toLowerCase(searchQuery) IN
    SelectSeq(requests, LAMBDA r :
      \/ includes(toLowerCase(r.url), query)
      \/ includes(toLowerCase(r.method), query)
      \/ includes(toString(r.status), query))

selectAll ==
  /\ selected' = Ids(getFilteredRequests)
  /\ UNCHANGED <<requests, favorites, isPaused, maxRequests, searchQuery>>

deselectAll ==
  /\ selected' = {}
  /\ UNCHANGED <<requests, favorites, isPaused, maxRequests, searchQuery>>

setSelected(ids) ==
  /\ selected' = ids
  /\ UNCHANGED <<requests, favorites, isPaused, maxRequests, searchQuery>>

toggleFavorite(id) ==
  /\ favorites' = IF id \in favorites THEN favorites \ {id} ELSE favorites \cup {id}
  /\ UNCHANGED <<requests, selected, isPaused, maxRequests, searchQuery>>

clearFavorites ==
  /\ favorites' = {}
  /\ UNCHANGED <<requests, selected, isPaused, maxRequests, searchQuery>>

setPaused(paused) ==
  /\ isPaused' = paused
  /\ UNCHANGED <<requests, favorites, selected, maxRequests, searchQuery>>

\* variant: the capacity is set and the list is left as it is
setMaxRequestsWithoutTrim(max) ==
  /\ maxRequests' = max
  /\ UNCHANGED <<requests, favorites, selected, isPaused, searchQuery>>

\* variant: the oldest records are kept
setMaxRequestsKeepOldest(max) ==
  IF max < Len(requests)
  THEN
    LET removed == sliceFrom(requests, max)
        removedIds == Ids(removed)
    IN /\ maxRequests' = max
       /\ requests' = slice(requests, 0, max)
       /\ favorites' = {id \in favorites : id \notin removedIds}
       /\ selected' = {id \in selected : id \notin removedIds}
       /\ UNCHANGED <<isPaused, searchQuery>>
  ELSE
    /\ maxRequests' = max
    /\ UNCHANGED <<requests, favorites, selected, isPaused, searchQuery>>

setMaxRequests(max) ==
  IF max < Len(requests)
  THEN
    LET removed == slice(requests, 0, Len(requests) - max)
        removedIds == Ids(removed)
    IN /\ maxRequests' = max
       /\ requests' = sliceFrom(requests, -max)
       /\ favorites' = {id \in favorites : id \notin removedIds}
       /\ selected' = {id \in selected : id \notin removedIds}
       /\ UNCHANGED <<isPaused, searchQuery>>
  ELSE
    /\ maxRequests' = max
    /\ UNCHANGED <<requests, favorites, selected, isPaused, searchQuery>>

setSearchQuery(query) ==
  /\ searchQuery' = query
  /\ UNCHANGED <<requests, favorites, selected, isPaused, maxRequests>>

\* defined when a stored record has this id (the code returns undefined otherwise)
getRequestById(id) ==
  requests[CHOOSE i \in 1..Len(requests) : requests[i].id = id]

------------------------------------------------------------------------------
\* The drawer: useUIStore and the BodyDisplay of the response tab

DrawerTabs == {"request", "response", "timing"}

openDrawer(requestId) ==
  /\ activeRequestId' = requestId
  /\ drawerTab' = "request"

closeDrawer ==
  /\ activeRequestId' = NullId
  /\ UNCHANGED drawerTab

setDrawerTab(tab) ==
  /\ drawerTab' = tab
  /\ UNCHANGED activeRequestId

\* RequestDrawer renders the response tab's BodyDisplay while the drawer shows
\* a stored record, requests.find((r) => r.id === activeRequestId), on that tab
bodyDisplayMounted ==
  /\ activeRequestId \in Ids(requests)
  /\ drawerTab = "response"

\* the render that follows a change of either store: a BodyDisplay that stays
\* mounted keeps its state, one that is mounted anew starts from useState's
\* initial values, and an unmounted one has none
renderBodyDisplay ==
  IF bodyDisplayMounted /\ bodyDisplayMounted'
    THEN UNCHANGED <<fullBody, isLoading>>
    ELSE fullBody' = NULL /\ isLoading' = FALSE

\* handleLoadFull up to its await: getFullBody is the handle of the record
\* the drawer shows
handleLoadFull ==
  /\ bodyDisplayMounted
  /\ getRequestById(activeRequestId).getFullResponseBody
  /\ ~isLoading
  /\ isLoading' = TRUE
  /\ UNCHANGED <<storeVars, fullBody>>

\* variant: the loaded content is written into the stored record
handleLoadFullSettledIntoStore(content) ==
  /\ isLoading
  /\ fullBody' = IF content /= UNDEFINED THEN content ELSE fullBody
  /\ isLoading' = FALSE
  /\ requests' = [i \in 1..Len(requests) |->
                    IF requests[i].id = activeRequestId /\ content /= UNDEFINED
                      THEN [requests[i] EXCEPT !.responseBody = content,
                                               !.hasFullResponseBody = TRUE]
                      ELSE requests[i]]
  /\ UNCHANGED <<favorites, selected, isPaused, maxRequests, searchQuery>>

\* handleLoadFull from its await on: the handle's promise settles with the
\* content getContent calls back with, or rejects when that is undefined.
\* The content goes to the component's state; the store is not written.
handleLoadFullSettled(content) ==
  /\ isLoading
  /\ fullBody' = IF content /= UNDEFINED THEN content ELSE fullBody
  /\ isLoading' = FALSE
  /\ UNCHANGED storeVars

------------------------------------------------------------------------------
\* Live capture: startCapture and the useNetworkCapture hook

UrlC == <<"h",":","/","/","a","/","Z">>
PageA == <<"h",":","/","/","a","/">>
PageB == <<"h",":","/","/","b","/">>
NotAUrl == <<"x">>

\* new URL(url).origin for scheme://host/path texts; "" when the URL does not parse
SchemeEnd(url) ==
  IF \E k \in 2..(Len(url) - 2) : SubSeq(url, k, k + 2) = <<":","/","/">>
    THEN CHOOSE k \in 2..(Len(url) - 2) :
           /\ SubSeq(url, k, k + 2) = <<":","/","/">>
           /\ \A j \in 2..(k - 1) : SubSeq(url, j, j + 2) /= <<":","/","/">>
    ELSE 0

isValidUrl(url) == SchemeEnd(url) > 0 /\ Len(url) > SchemeEnd(url) + 2

getOrigin(url) ==
  IF ~isValidUrl(url) THEN <<>>
  ELSE
    LET hostStart == SchemeEnd(url) + 3
        slashes == {k \in hostStart..Len(url) : url[k] = "/"}
        hostEnd == IF slashes = {} THEN Len(url)
                   ELSE (CHOOSE k \in slashes : \A j \in slashes : k <= j) - 1
    IN SubSeq(url, 1, hostEnd)

shouldCaptureRequest(entry, scope, page) ==
  CASE scope = "page" -> getOrigin(entry.url) = getOrigin(page)
    [] scope = "page-iframes" -> getOrigin(entry.url) = getOrigin(page)
    [] scope = "all" -> TRUE
    [] OTHER -> TRUE

\* patterns are literal texts here: new RegExp(pattern, "i").test(url)
matchesExclusionPattern(url, patterns) ==
  \E k \in 1..Len(patterns) : includes(toLowerCase(url), toLowerCase(patterns[k]))

LiveEntries ==
  { [method |-> GET, url |-> u, status |-> 200, size |-> sz] :
      u \in {UrlA, UrlB}, sz \in BodySizes }
  \cup { [method |-> GET, url |-> UrlC, status |-> 200, size |-> MAX_BODY_SIZE - 1] }

NotCalled == "not called"

\* onRequest(networkRequest), with the history of the record
Admit(record, ev, content) ==
  /\ addRequest(record)
  /\ nextId' = nextId + 1
  /\ origin' = origin \cup {[id |-> record.id, ev |-> ev, content |-> content]}

\* handleRequestFinished up to the getContent call of parseHarEntry; an
\* entry whose body is not loaded inline runs to onRequest without a
\* callback to wait for
handleRequestFinished(entry) ==
  /\ isCapturing
  /\ evCount' = evCount + 1
  /\ IF matchesExclusionPattern(entry.url, exclusionPatterns)
       THEN UNCHANGED <<storeVars, nextId, inflight, origin>>
     ELSE IF pageUrl /= <<>> /\ ~shouldCaptureRequest(entry, captureScope, pageUrl)
       THEN UNCHANGED <<storeVars, nextId, inflight, origin>>
     ELSE IF shouldLoadBody(entry)
       THEN /\ inflight' = inflight \cup {[ev |-> evCount + 1, entry |-> entry]}
            /\ UNCHANGED <<storeVars, nextId, origin>>
     ELSE /\ Admit(parseHarEntry(entry, UNDEFINED, nextId), evCount + 1, NotCalled)
          /\ UNCHANGED inflight

\* getContent calls back: parseHarEntry resumes and the handler runs to onRequest
getContentCallback(h, content) ==
  /\ h \in inflight
  /\ inflight' = inflight \ {h}
  /\ Admit(parseHarEntry(h.entry, content, nextId), h.ev, content)

\* getInspectedPageUrl().then((url) => { pageUrl = url })
pageUrlResolved(url) ==
  /\ pagePending
  /\ pagePending' = FALSE
  /\ pageUrl' = url

handleNavigation(url) ==
  /\ isCapturing
  /\ pageUrl' = url

\* the effect of useNetworkCapture on isPaused: cleanup, then startCapture
\* unless paused
captureEffect ==
  /\ isCapturing = isPaused
  /\ IF isPaused
       THEN /\ isCapturing' = FALSE
            /\ UNCHANGED <<pageUrl, pagePending>>
       ELSE /\ isCapturing' = TRUE
            /\ pageUrl' = <<>>
            /\ pagePending' = TRUE

------------------------------------------------------------------------------
\* Replay: replayRequest and ReplayEditor.handleReplay

toUpperCaseChar(c) ==
  IF \E k \in 1..Len(LowerChars) : LowerChars[k] = c
    THEN UpperChars[CHOOSE k \in 1..Len(LowerChars) : LowerChars[k] = c]
    ELSE c

toUpperCase(s) == [i \in 1..Len(s) |-> toUpperCaseChar(s[i])]

\* new TextEncoder().encode(text).length of the response texts used
byteLength(text) == IF text = "data" THEN 4 ELSE 0

\* the record replayRequest builds from a response
replayedRequest(options, response, id) ==
  [ id |-> id,
    method |-> toUpperCase(options.method),
    url |-> options.url,
    status |-> response.status,
    responseBody |-> response.text,
    responseBodySize |-> byteLength(response.text),
    isReplayed |-> TRUE,
    hasFullResponseBody |-> TRUE,
    getFullResponseBody |-> FALSE ]

ReplayOptions == { [method |-> GET, url |-> u] : u \in {UrlA, NotAUrl} }
Responses == { [status |-> 200, text |-> "data"], [status |-> 500, text |-> ""] }

\* what fetch and response.text() do: a response, or a thrown value, which is
\* an Error with a message or something else
FetchErrors == {"Failed to fetch", "The operation was aborted", ""}
NonError == "not an Error"
FetchOutcomes ==
  {[response |-> r] : r \in Responses} \cup {[thrown |-> e] : e \in FetchErrors \cup {NonError}}
\* the outcome argument of a call that issues no fetch
NoFetch == [unused |-> TRUE]

\* variant: no catch around the fetch, the thrown value rejects the promise
replayRequestUncaught(options, outcome, id) ==
  IF ~isValidUrl(options.url) THEN [success |-> FALSE, error |-> "Invalid URL"]
  ELSE IF "response" \in DOMAIN outcome
    THEN [success |-> TRUE, request |-> replayedRequest(options, outcome.response, id)]
  ELSE [rejected |-> outcome.thrown]

\* the ReplayResult replayRequest resolves to; outcome is read only when the
\* URL is valid and the fetch is issued
replayRequest(options, outcome, id) ==
  IF ~isValidUrl(options.url) THEN [success |-> FALSE, error |-> "Invalid URL"]
  ELSE IF "response" \in DOMAIN outcome
    THEN [success |-> TRUE, request |-> replayedRequest(options, outcome.response, id)]
  ELSE
    LET errorMessage == IF outcome.thrown = NonError THEN "Request failed"
                        ELSE outcome.thrown
    IN IF errorMessage = "Failed to fetch"
         THEN [success |-> FALSE,
               error |-> "Request blocked by CORS or network error. Try from a page on the same domain."]
         ELSE [success |-> FALSE, error |-> errorMessage]

\* result.error || "Replay failed"
errorOf(result) ==
  IF "error" \in DOMAIN result /\ result.error /= "" THEN result.error
  ELSE "Replay failed"

\* a name for a new pending call: the least number no pending call has
FreeSlot == CHOOSE k \in 1..(Cardinality(replays) + 1) :
              /\ \A c \in replays : c.n /= k
              /\ \A j \in 1..(k - 1) : \E c \in replays : c.n = j

\* handleReplay up to the fetch of replayRequest: an invalid URL fails at once.
\* The editor is opened on a stored record.
handleReplay(options) ==
  /\ requests /= <<>>
  /\ IF isValidUrl(options.url)
       THEN /\ replays' = replays \cup {[n |-> FreeSlot, options |-> options]}
            /\ replayError' = NULL
       ELSE /\ replayError' = errorOf(replayRequest(options, NoFetch, nextId))
            /\ UNCHANGED replays

\* variant: the record is appended to requests directly, not through addRequest
replayFetchedPastAddRequest(call, response) ==
  /\ call \in replays
  /\ replays' = replays \ {call}
  /\ requests' = Append(requests, replayedRequest(call.options, response, nextId))
  /\ UNCHANGED <<favorites, selected, isPaused, maxRequests, searchQuery>>
  /\ nextId' = nextId + 1
  /\ origin' = origin \cup {[id |-> nextId, ev |-> 0, content |-> NotCalled]}
  /\ openDrawer(nextId)
  /\ renderBodyDisplay
  /\ UNCHANGED replayError

\* fetch resolves: replayRequest returns success and handleReplay admits the
\* record and opens it
replayFetched(call, response) ==
  /\ call \in replays
  /\ replays' = replays \ {call}
  /\ Admit(replayRequest(call.options, [response |-> response], nextId).request,
           0, NotCalled)
  /\ openDrawer(nextId)
  /\ renderBodyDisplay
  /\ UNCHANGED replayError

\* fetch or response.text() throws: replayRequest returns the failure, nothing
\* is admitted
replayFailed(call, thrown) ==
  /\ call \in replays
  /\ replays' = replays \ {call}
  /\ replayError' = errorOf(replayRequest(call.options, [thrown |-> thrown], nextId))

------------------------------------------------------------------------------
\* The sanitizer

MaxTextLen == 3
MaxRules == 2

\* new RegExp(pattern, "gi") over the patterns used here: a pattern is a
\* literal text, which matches itself in either case (the empty pattern
\* matches the empty text at every position); a pattern with an unclosed "("
\* does not compile and the constructor throws
RegExpCompiles(pattern) == "(" \notin Range(pattern)

matchesAt(text, pattern, i) ==
  /\ i + Len(pattern) - 1 <= Len(text)
  /\ toLowerCase(SubSeq(text, i, i + Len(pattern) - 1)) = toLowerCase(pattern)

\* the replacement patterns of String.prototype.replace: "$&" is the matched
\* text and "$$" a dollar sign; the patterns here have no groups, so "$1" and
\* the like stand for themselves
RECURSIVE expandReplacement(_, _)
expandReplacement(replacement, matched) ==
  IF replacement = <<>> THEN <<>>
  ELSE IF Len(replacement) >= 2 /\ replacement[1] = "$" /\ replacement[2] = "&"
    THEN matched \o expandReplacement(SubSeq(replacement, 3, Len(replacement)), matched)
  ELSE IF Len(replacement) >= 2 /\ replacement[1] = "$" /\ replacement[2] = "$"
    THEN <<"$">> \o expandReplacement(SubSeq(replacement, 3, Len(replacement)), matched)
  ELSE <<replacement[1]>> \o expandReplacement(Tail(replacement), matched)

\* text.replace(regex, replacement) with the g flag, from position i on: the
\* leftmost match, then the next one after it; past an empty match the
\* search moves one character on
RECURSIVE replaceFrom(_, _, _, _)
replaceFrom(text, pattern, replacement, i) ==
  IF matchesAt(text, pattern, i)
    THEN LET n == Len(pattern)
             put == expandReplacement(replacement, SubSeq(text, i, i + n - 1))
         IN IF n > 0 THEN put \o replaceFrom(text, pattern, replacement, i + n)
            ELSE IF i <= Len(text)
              THEN put \o <<text[i]>> \o replaceFrom(text, pattern, replacement, i + 1)
            ELSE put
  ELSE IF i <= Len(text)
    THEN <<text[i]>> \o replaceFrom(text, pattern, replacement, i + 1)
  ELSE <<>>

replace(text, pattern, replacement) == replaceFrom(text, pattern, replacement, 1)

\* variant: the first rule whose pattern does not compile ends the loop
RECURSIVE forEachRuleUntilError(_, _)
forEachRuleUntilError(sanitized, enabledRules) ==
  IF enabledRules = <<>> THEN sanitized
  ELSE LET rule == Head(enabledRules)
       IN IF RegExpCompiles(rule.pattern)
            THEN forEachRuleUntilError(replace(sanitized, rule.pattern, rule.replacement),
                                       Tail(enabledRules))
            ELSE sanitized

\* the loop of sanitizeValue: try { replace } catch { skip the rule }
RECURSIVE forEachRule(_, _)
forEachRule(sanitized, enabledRules) ==
  IF enabledRules = <<>> THEN sanitized
  ELSE LET rule == Head(enabledRules)
       IN forEachRule(IF RegExpCompiles(rule.pattern)
                        THEN replace(sanitized, rule.pattern, rule.replacement)
                        ELSE sanitized,
                      Tail(enabledRules))

\* variant: the rules kept are the disabled ones
sanitizeValueOfDisabledRules(value, rules) ==
  IF value = <<>> THEN value
  ELSE forEachRule(value, filter(rules, LAMBDA r : ~r.enabled))

\* variant: the enabled flag is not read
sanitizeValueOfAllRules(value, rules) ==
  IF value = <<>> THEN value
  ELSE forEachRule(value, rules)

sanitizeValue(value, rules) ==
  IF value = <<>> THEN value
  ELSE forEachRule(value, filter(rules, LAMBDA r : r.enabled))

\* variant: the header names are sanitized as the values are
sanitizeHeadersAndNames(headers, rules) ==
  [k \in 1..Len(headers) |-> [name |-> sanitizeValue(headers[k].name, rules),
                              value |-> sanitizeValue(headers[k].value, rules)]]

\* headers: the entries of the object, in Object.entries order
sanitizeHeaders(headers, rules) ==
  [k \in 1..Len(headers) |-> [name |-> headers[k].name,
                              value |-> sanitizeValue(headers[k].value, rules)]]

\* a body (string | null) is <<>> when null and <<text>> when a string;
\* null and the empty string are falsy
truthy(body) == body /= <<>> /\ body[1] /= <<>>

sanitizeRequest(request, rules) ==
  [ id |-> request.id,
    timestamp |-> request.timestamp,
    method |-> request.method,
    url |-> sanitizeValue(request.url, rules),
    status |-> request.status,
    statusText |-> request.statusText,
    duration |-> request.duration,
    requestHeaders |-> sanitizeHeaders(request.requestHeaders, rules),
    requestBody |-> IF truthy(request.requestBody)
                      THEN <<sanitizeValue(request.requestBody[1], rules)>>
                      ELSE <<>>,
    requestBodySize |-> request.requestBodySize,
    responseHeaders |-> sanitizeHeaders(request.responseHeaders, rules),
    responseBody |-> IF truthy(request.responseBody)
                       THEN <<sanitizeValue(request.responseBody[1], rules)>>
                       ELSE <<>>,
    responseBodySize |-> request.responseBodySize,
    responseMimeType |-> request.responseMimeType,
    isGraphQL |-> request.isGraphQL,
    isWebSocket |-> request.isWebSocket ]

\* a list with its k-th element taken out
withoutRule(ruleList, k) ==
  SubSeq(ruleList, 1, k - 1) \o SubSeq(ruleList, k + 1, Len(ruleList))

\* the texts and the rules the sanitizer is exercised with
TextChars == {"a", "A", "b"}
Texts == UNION {[1..n -> TextChars] : n \in 0..MaxTextLen}

rule(id, pattern, replacement, enabled) ==
  [id |-> id, name |-> id, pattern |-> pattern, replacement |-> replacement,
   enabled |-> enabled, isDefault |-> FALSE]

RulePool ==
  { rule("ab to a", <<"a","b">>, <<"a">>, TRUE),
    rule("ab to a, off", <<"a","b">>, <<"a">>, FALSE),
    rule("a to b", <<"a">>, <<"b">>, TRUE),
    rule("keep b", <<"b">>, <<"$","&">>, TRUE),
    rule("unclosed group", <<"(">>, <<"X">>, TRUE),
    rule("empty", <<>>, <<"X">>, TRUE) }

RuleLists == UNION {[1..n -> RulePool] : n \in 0..MaxRules}

\* records to sanitize: the drawn text is the URL, a header value and one of
\* the bodies; the other body is null
SanitizerRequests(text) ==
  { [ id |-> 1, timestamp |-> 0, method |-> GET, url |-> text,
      requestHeaders |-> << [name |-> <<"a","b">>, value |-> text],
                            [name |-> <<"b">>, value |-> <<"A","b">>] >>,
      requestBody |-> IF sent THEN <<text>> ELSE <<>>,
      requestBodySize |-> IF sent THEN Len(text) ELSE 0,
      status |-> 200, statusText |-> <<"O","K">>,
      responseHeaders |-> << [name |-> <<"a">>, value |-> text] >>,
      responseBody |-> IF sent THEN <<>> ELSE <<text>>,
      responseBodySize |-> IF sent THEN 0 ELSE Len(text),
      responseMimeType |-> <<"a">>,
      timing |-> 0, duration |-> 7,
      isGraphQL |-> sent, isWebSocket |-> FALSE, isReplayed |-> FALSE,
      resourceType |-> <<"x","h","r">>,
      hasFullResponseBody |-> ~sent ] : sent \in BOOLEAN }

------------------------------------------------------------------------------
\* The sanitization rules of the settings store

MaxRuleActions == 3

\* patterns and replacements are kept as the source writes them
DEFAULT_SANITIZATION_RULES ==
  << [id |-> "default-bearer", name |-> "Bearer Token",
      pattern |-> "Bearer\\s+[\\w\\-\\.]+", replacement |-> "Bearer [REDACTED]",
      enabled |-> TRUE, isDefault |-> TRUE],
     [id |-> "default-jwt", name |-> "JWT Token",
      pattern |-> "eyJ[\\w\\-]+\\.eyJ[\\w\\-]+\\.[\\w\\-]+", replacement |-> "[JWT REDACTED]",
      enabled |-> TRUE, isDefault |-> TRUE],
     [id |-> "default-password", name |-> "Password Field",
      pattern |-> "\"password\"\\s*:\\s*\"[^\"]*\"", replacement |-> "\"password\": \"[REDACTED]\"",
      enabled |-> TRUE, isDefault |-> TRUE],
     [id |-> "default-token", name |-> "Token Field",
      pattern |-> "\"token\"\\s*:\\s*\"[^\"]*\"", replacement |-> "\"token\": \"[REDACTED]\"",
      enabled |-> TRUE, isDefault |-> TRUE],
     [id |-> "default-secret", name |-> "Secret Field",
      pattern |-> "\"secret\"\\s*:\\s*\"[^\"]*\"", replacement |-> "\"secret\": \"[REDACTED]\"",
      enabled |-> TRUE, isDefault |-> TRUE],
     [id |-> "default-api-key", name |-> "API Key Field",
      pattern |-> "\"api_key\"\\s*:\\s*\"[^\"]*\"", replacement |-> "\"api_key\": \"[REDACTED]\"",
      enabled |-> TRUE, isDefault |-> TRUE] >>

\* the strings generateId returns for rules, by the number of ids handed out
GeneratedIds == <<"id-1", "id-2", "id-3", "id-4">>

\* { ...rule, id: generateId(), isDefault: false } appended
addSanitizationRule(newFields, id) ==
  sanitizationRules' =
    Append(sanitizationRules,
           [name |-> newFields.name, pattern |-> newFields.pattern,
            replacement |-> newFields.replacement, enabled |-> newFields.enabled,
            id |-> id, isDefault |-> FALSE])

\* { ...r, ...updates }: the fields updates has replace those of r
spread(r, updates) ==
  [f \in DOMAIN r \cup DOMAIN updates |->
     IF f \in DOMAIN updates THEN updates[f] ELSE r[f]]

updateSanitizationRule(id, updates) ==
  sanitizationRules' =
    [k \in 1..Len(sanitizationRules) |->
       IF sanitizationRules[k].id = id
         THEN spread(sanitizationRules[k], updates)
         ELSE sanitizationRules[k]]

removeSanitizationRule(id) ==
  sanitizationRules' = filter(sanitizationRules, LAMBDA r : r.id /= id \/ r.isDefault)

\* new Map(entries).get(id): the last rule with that id, undefined if none
ruleMapHas(id) == \E k \in 1..Len(sanitizationRules) : sanitizationRules[k].id = id
ruleMapGet(id) ==
  sanitizationRules[CHOOSE k \in 1..Len(sanitizationRules) :
                      /\ sanitizationRules[k].id = id
                      /\ \A j \in (k + 1)..Len(sanitizationRules) :
                           sanitizationRules[j].id /= id]

\* ruleIds.map((id) => ruleMap.get(id)).filter(Boolean)
reorderSanitizationRules(ruleIds) ==
  sanitizationRules' =
    LET known == filter(ruleIds, ruleMapHas)
    IN [k \in 1..Len(known) |-> ruleMapGet(known[k])]

\* setMaxRequests of the settings store: set({ maxRequests: max }), then
\* saveSettings
settingsSetMaxRequests(max) == settingsMaxRequests' = max

\* loadSettings: maxRequests: result.maxRequests || 500 and
\* sanitizationRules: result.sanitizationRules || [...DEFAULT_SANITIZATION_RULES];
\* the default of both stores, 500, is MaxCapacity here
loadSettings(result) ==
  /\ settingsMaxRequests' = IF result.maxRequests = <<>> THEN MaxCapacity
                            ELSE result.maxRequests[1]
  /\ sanitizationRules' = IF result.sanitizationRules = <<>>
                          THEN DEFAULT_SANITIZATION_RULES
                          ELSE result.sanitizationRules[1]

\* what chrome.storage.local.get resolves to: nothing, <<>>, or what
\* saveSettings stored: a capacity, <<n>>, and the rules of the store
StoredSettings ==
  {[maxRequests |-> <<>>, sanitizationRules |-> <<>>]}
    \cup {[maxRequests |-> <<n>>, sanitizationRules |-> <<sanitizationRules>>] :
            n \in 1..MaxCapacity}

\* what the rule actions are called with
NewRules ==
  { [name |-> "Session", pattern |-> "sid=\\w+", replacement |-> "sid=[REDACTED]",
     enabled |-> TRUE] }

RuleUpdates ==
  { [enabled |-> FALSE], [enabled |-> TRUE],
    [pattern |-> "Bearer .*", replacement |-> "[REDACTED]"],
    [isDefault |-> FALSE] }

RuleIds == Ids(sanitizationRules) \cup {"no-such-rule"}

reverse(s) == [k \in 1..Len(s) |-> s[Len(s) + 1 - k]]

\* the ids in the order of the list with one rule moved to the front or all
\* reversed, and the order of a list that is one rule short
RuleOrders ==
  LET ids == [k \in 1..Len(sanitizationRules) |-> sanitizationRules[k].id]
  IN {reverse(ids)}
     \cup {<<ids[k]>> \o withoutRule(ids, k) : k \in 1..Len(ids)}
     \cup {withoutRule(ids, k) : k \in 1..Len(ids)}

------------------------------------------------------------------------------
\* The context builder

MaxContextRequests == 3
\* messages the chat is given in a run, and chunks one stream delivers
MaxMessages == 4
MaxChunks == 1

\* A long text is a tuple of pieces, each the characters from (counted from
\* 0) up to but not including to of a source text: the summary, the section
\* of the i-th request, the separator, or a notice. The source texts other
\* than the separator are taken to hold no separator. index tells the
\* sections of the requests apart and is 0 for the other texts.
piece(src, from, to) == [src |-> src, index |-> 0, from |-> from, to |-> to]

SEPARATOR == "\n\n---\n\n"
SeparatorLength == 7
separator == <<piece(SEPARATOR, 0, SeparatorLength)>>

NoRequestsProvided == <<piece("No requests provided.", 0, 21)>>
ContextTruncated == <<piece("\n\n[Context truncated due to size]", 0, 33)>>
RequestDetailsTruncated == <<piece("\n\n[Request details truncated due to size]", 0, 41)>>
SomeRequestsTruncated == <<piece("\n\n[Some requests truncated due to size]", 0, 39)>>

RECURSIVE length(_)
length(text) ==
  IF text = <<>> THEN 0
  ELSE (Head(text).to - Head(text).from) + length(Tail(text))

\* String.prototype.slice(start, end) for 0 <= start and 0 <= end
RECURSIVE sliceText(_, _, _)
sliceText(text, start, end) ==
  IF text = <<>> THEN <<>>
  ELSE LET p == Head(text)
           n == p.to - p.from
           a == IF start > 0 THEN start ELSE 0
           b == IF end < n THEN end ELSE n
       IN (IF a < b THEN <<[p EXCEPT !.from = p.from + a, !.to = p.from + b]>>
           ELSE <<>>)
          \o sliceText(Tail(text), start - n, end - n)

sliceTextFrom(text, start) == sliceText(text, start, length(text))

isSeparator(p) == p = separator[1]

\* indexOf and lastIndexOf of the separator, -1 when the text holds none
indexOfSeparator(text) ==
  IF \E k \in 1..Len(text) : isSeparator(text[k])
    THEN LET first == CHOOSE k \in 1..Len(text) :
                        /\ isSeparator(text[k])
                        /\ \A j \in 1..(k - 1) : ~isSeparator(text[j])
         IN length(SubSeq(text, 1, first - 1))
    ELSE -1

lastIndexOfSeparator(text) ==
  IF \E k \in 1..Len(text) : isSeparator(text[k])
    THEN LET last == CHOOSE k \in 1..Len(text) :
                       /\ isSeparator(text[k])
                       /\ \A j \in (k + 1)..Len(text) : ~isSeparator(text[j])
         IN length(SubSeq(text, 1, last - 1))
    ELSE -1

\* Math.ceil(text.length / 4)
estimateTokenCount(text) == (length(text) + 3) \div 4

MAX_CONTEXT_TOKENS == 50000

\* the text of the summary: its fixed lines and what each request adds to
\* them (a method or status code not listed yet)
SummaryBase == 150
RECURSIVE summaryLength(_)
summaryLength(requestList) ==
  IF requestList = <<>> THEN SummaryBase
  ELSE Head(requestList).summaryChars + summaryLength(Tail(requestList))

buildSummarySection(requestList) ==
  <<piece("summary", 0, summaryLength(requestList))>>

\* the text of the section of one request
buildRequestSection(sanitized, index) ==
  <<[src |-> "request", index |-> index, from |-> 0, to |-> sanitized.sectionLength]>>

\* sections.join(SEPARATOR)
RECURSIVE join(_)
join(sections) ==
  IF Len(sections) = 1 THEN sections[1]
  ELSE sections[1] \o separator \o join(Tail(sections))

\* variant: no room is left for the notice
truncateContextWithoutRoom(text, maxTokens) ==
  LET maxChars == maxTokens * 4
      summaryEnd == indexOfSeparator(text)
      summary == sliceText(text, 0, summaryEnd)
      remaining == sliceTextFrom(text, summaryEnd)
      remainingMaxChars == maxChars - length(summary)
      truncatedRemaining == sliceText(remaining, 0, remainingMaxChars)
      lastRequestBoundary == lastIndexOfSeparator(truncatedRemaining)
  IN IF length(text) <= maxChars THEN text
     ELSE IF summaryEnd = -1 THEN sliceText(text, 0, maxChars) \o ContextTruncated
     ELSE IF remainingMaxChars <= 0 THEN summary \o RequestDetailsTruncated
     ELSE IF lastRequestBoundary > 0
       THEN summary \o sliceText(truncatedRemaining, 0, lastRequestBoundary)
                    \o SomeRequestsTruncated
     ELSE summary \o truncatedRemaining \o ContextTruncated

\* variant: a text cut at a request boundary gets no notice
truncateContextWithoutNotice(text, maxTokens) ==
  LET maxChars == maxTokens * 4
      summaryEnd == indexOfSeparator(text)
      summary == sliceText(text, 0, summaryEnd)
      remaining == sliceTextFrom(text, summaryEnd)
      remainingMaxChars == maxChars - length(summary) - 50
      truncatedRemaining == sliceText(remaining, 0, remainingMaxChars)
      lastRequestBoundary == lastIndexOfSeparator(truncatedRemaining)
  IN IF length(text) <= maxChars THEN text
     ELSE IF summaryEnd = -1 THEN sliceText(text, 0, maxChars) \o ContextTruncated
     ELSE IF remainingMaxChars <= 0 THEN summary \o RequestDetailsTruncated
     ELSE IF lastRequestBoundary > 0
       THEN summary \o sliceText(truncatedRemaining, 0, lastRequestBoundary)
     ELSE summary \o truncatedRemaining \o ContextTruncated

truncateContext(text, maxTokens) ==
  LET maxChars == maxTokens * 4
      summaryEnd == indexOfSeparator(text)
      summary == sliceText(text, 0, summaryEnd)
      remaining == sliceTextFrom(text, summaryEnd)
      remainingMaxChars == maxChars - length(summary) - 50
      truncatedRemaining == sliceText(remaining, 0, remainingMaxChars)
      lastRequestBoundary == lastIndexOfSeparator(truncatedRemaining)
  IN IF length(text) <= maxChars THEN text
     ELSE IF summaryEnd = -1 THEN sliceText(text, 0, maxChars) \o ContextTruncated
     ELSE IF remainingMaxChars <= 0 THEN summary \o RequestDetailsTruncated
     ELSE IF lastRequestBoundary > 0
       THEN summary \o sliceText(truncatedRemaining, 0, lastRequestBoundary)
                    \o SomeRequestsTruncated
     ELSE summary \o truncatedRemaining \o ContextTruncated

\* the summary and the sections of the requests, joined
joinedSections(requestList) ==
  join(<<buildSummarySection(requestList)>>
       \o [i \in 1..Len(requestList) |-> buildRequestSection(requestList[i], i)])

buildContext(requestList) ==
  IF Len(requestList) = 0 THEN NoRequestsProvided
  ELSE LET joined == joinedSections(requestList)
       IN IF estimateTokenCount(joined) > MAX_CONTEXT_TOKENS
            THEN truncateContext(joined, MAX_CONTEXT_TOKENS)
            ELSE joined

\* the requests buildContext is exercised with, by the length of the section
\* each gets and of what each adds to the summary: sections that are short,
\* half the budget, the largest a single one can be for all to fit and one
\* character more, and method names that leave the summary with room for
\* three characters beside it, with none, or over the budget by itself
ContextRequestPool ==
  { [sectionLength |-> 1000, summaryChars |-> 0],
    [sectionLength |-> 99000, summaryChars |-> 0],
    [sectionLength |-> 4 * MAX_CONTEXT_TOKENS - SummaryBase - SeparatorLength,
     summaryChars |-> 0],
    [sectionLength |-> 4 * MAX_CONTEXT_TOKENS - SummaryBase - SeparatorLength + 1,
     summaryChars |-> 0],
    [sectionLength |-> 1000, summaryChars |-> 4 * MAX_CONTEXT_TOKENS - SummaryBase - 53],
    [sectionLength |-> 1000, summaryChars |-> 4 * MAX_CONTEXT_TOKENS - SummaryBase - 50],
    [sectionLength |-> 1000, summaryChars |-> 4 * MAX_CONTEXT_TOKENS] }

ContextInputs == UNION {[1..n -> ContextRequestPool] : n \in 0..MaxContextRequests}

\* the texts and budgets truncateContext is exercised with by itself: a first
\* part and up to MaxContextRequests more, joined by the separator
PartLengths == {1, 5, 40, 100}
TruncateBudgets == {1, 2, 10, 30}
TruncateTexts ==
  { join(<<<<piece("summary", 0, first)>>>>
         \o [i \in 1..Len(rest) |-> buildRequestSection([sectionLength |-> rest[i]], i)]) :
      first \in PartLengths,
      rest \in UNION {[1..n -> PartLengths] : n \in 0..MaxContextRequests} }

------------------------------------------------------------------------------
\* The request classifier

\* JSON.parse of the bodies used here: what it returns, by type, with the
\* keys of an object and the type of its query field; thrown for a text that
\* is not JSON
JSONParse(body) ==
  CASE body = "{\"query\":\"{ me }\"}" ->
         [type |-> "object", keys |-> {"query"}, query |-> "string"]
    [] body = "{\"query\":1}" ->
         [type |-> "object", keys |-> {"query"}, query |-> "number"]
    [] body = "{\"mutation\":\"x\"}" ->
         [type |-> "object", keys |-> {"mutation"}, query |-> "undefined"]
    [] body = "{\"a\":1}" ->
         [type |-> "object", keys |-> {"a"}, query |-> "undefined"]
    [] body = "5" ->
         [type |-> "number", keys |-> {}, query |-> "undefined"]
    [] OTHER -> [type |-> "thrown", keys |-> {}, query |-> "undefined"]

\* safeJsonParse: null when JSON.parse throws
safeJsonParse(str) ==
  IF JSONParse(str).type = "thrown"
    THEN [type |-> "null", keys |-> {}, query |-> "undefined"]
    ELSE JSONParse(str)

GraphqlPath == <<"/","g","r","a","p","h","q","l">>
ContentTypeName == <<"c","o","n","t","e","n","t","-","t","y","p","e">>
ApplicationJson == <<"a","p","p","l","i","c","a","t","i","o","n","/","j","s","o","n">>

\* null and the empty string are falsy
hasText(body) == body /= NULL /\ body /= ""

\* the value of the first header whose name is content-type in any case,
\* <<>> when there is none
contentTypeOf(requestHeaders) ==
  LET named == filter(requestHeaders, LAMBDA h : toLowerCase(h.name) = ContentTypeName)
  IN IF named = <<>> THEN <<>> ELSE <<named[1].value>>

\* isGraphQLRequest of lib/utils/graphql, which parseHarEntry calls
isGraphQLRequest(request) ==
  LET hasGraphQLUrl == includes(toLowerCase(request.url), GraphqlPath)
      contentType == contentTypeOf(request.requestHeaders)
      isJsonContent == contentType /= <<>> /\ includes(contentType[1], ApplicationJson)
      parsed == safeJsonParse(request.requestBody)
  IN IF /\ hasText(request.requestBody) /\ isJsonContent
        /\ parsed.type = "object"
        /\ parsed.query = "string"
       THEN TRUE
     ELSE IF hasGraphQLUrl /\ request.method = POST /\ isJsonContent THEN TRUE
     ELSE FALSE

\* isGraphQLRequest of lib/network/replay, which replayRequest calls: the in
\* operator throws for a value that is not an object, and the catch returns
\* false
isGraphQLRequestOfReplay(url, body) ==
  IF includes(url, GraphqlPath) THEN TRUE
  ELSE IF hasText(body)
    THEN LET parsed == JSONParse(body)
         IN IF parsed.type = "object"
              THEN "query" \in parsed.keys \/ "mutation" \in parsed.keys
              ELSE FALSE
  ELSE FALSE

\* the requests the classifier is exercised with
ClassifierUrls == { <<"h",":","/","/","x","/","g","r","a","p","h","q","l">>,
                    <<"h",":","/","/","x","/","G","r","a","p","h","Q","L">>,
                    <<"h",":","/","/","x","/","a","p","i">>,
                    <<"h",":","/","/","x","/","a","p","i","?","t","o","=","/","g","r","a","p","h","q","l">> }
ClassifierHeaders ==
  { <<>>,
    << [name |-> <<"C","o","n","t","e","n","t","-","T","y","p","e">>, value |-> <<"a","p","p","l","i","c","a","t","i","o","n","/","j","s","o","n">>] >>,
    << [name |-> <<"c","o","n","t","e","n","t","-","t","y","p","e">>, value |-> <<"a","p","p","l","i","c","a","t","i","o","n","/","j","s","o","n",";"," ","c","h","a","r","s","e","t","=","u","t","f","-","8">>] >>,
    << [name |-> <<"C","o","n","t","e","n","t","-","T","y","p","e">>, value |-> <<"t","e","x","t","/","p","l","a","i","n">>] >> }
ClassifierBodies ==
  { NULL, "", "{\"query\":\"{ me }\"}", "{\"query\":1}", "{\"mutation\":\"x\"}",
    "{\"a\":1}", "5", "not json" }
Exchanges ==
  [method : {GET, POST}, url : ClassifierUrls, requestHeaders : ClassifierHeaders,
   requestBody : ClassifierBodies]

------------------------------------------------------------------------------
\* Initial state

IdSpace == 1..MaxIds
Capacities == 1..MaxCapacity
Queries == {<<>>, <<" ">>, <<"P","o">>}

InitStore ==
  /\ requests = <<>>
  /\ favorites = {}
  /\ selected = {}
  /\ isPaused = FALSE
  /\ maxRequests = MaxCapacity
  /\ searchQuery = <<>>
  /\ nextId = 1

InitDrawer ==
  /\ activeRequestId = NullId
  /\ drawerTab = "request"
  /\ fullBody = NULL
  /\ isLoading = FALSE

InitCapture ==
  /\ isCapturing = FALSE
  /\ pageUrl = <<>>
  /\ pagePending = FALSE
  /\ inflight = {}
  /\ evCount = 0
  /\ replays = {}
  /\ replayError = NULL
  /\ origin = {}

InitHist ==
  /\ lastOp = "init"
  /\ run = <<>>
  /\ dropped = {}
  /\ replayResult = <<>>

\* the settings store's initial state
InitSettings ==
  /\ captureScope = "page"
  /\ exclusionPatterns = <<>>

\* nothing is given to the sanitizer
InitSanitizer ==
  /\ inputValue = <<>>
  /\ inputRules = <<>>
  /\ sanitizedValue = <<>>
  /\ resanitizedValue = <<>>
  /\ inputRequest = <<>>
  /\ sanitizedRequest = <<>>

InitRules ==
  /\ sanitizationRules = DEFAULT_SANITIZATION_RULES
  /\ ruleActions = 0
  /\ settingsMaxRequests = MaxCapacity

\* nothing is given to the context builder
InitTruncate ==
  /\ contextText = <<>>
  /\ tokenBudget = MAX_CONTEXT_TOKENS
  /\ truncatedContext = <<>>

InitContext ==
  /\ contextRequests = <<>>
  /\ context = <<>>
  /\ InitTruncate

\* nothing is given to the classifier
InitClassifier ==
  /\ exchange = <<>>
  /\ capturedIsGraphQL = <<>>
  /\ replayedIsGraphQL = <<>>

------------------------------------------------------------------------------
\* The chat store (useChatStore)

\* the state of the store, as the record zustand's set and get work on
chatState ==
  [messages |-> messages, isStreaming |-> isStreaming,
   currentStreamingId |-> currentStreamingId, error |-> error]

\* zustand's set
setChat(state) ==
  /\ messages' = state.messages
  /\ isStreaming' = state.isStreaming
  /\ currentStreamingId' = state.currentStreamingId
  /\ error' = state.error

\* a message without wasInterrupted is one whose wasInterrupted is FALSE, and
\* one without requestContext has the empty list
addUserMessage(state, id, content, requestContext) ==
  [state EXCEPT
     !.messages = Append(@, [id |-> id, role |-> "user", content |-> content,
                             requestContext |-> requestContext,
                             wasInterrupted |-> FALSE]),
     !.error = <<>>]

startAssistantMessage(state, id) ==
  [state EXCEPT
     !.messages = Append(@, [id |-> id, role |-> "assistant", content |-> <<>>,
                             requestContext |-> <<>>,
                             wasInterrupted |-> FALSE]),
     !.isStreaming = TRUE,
     !.currentStreamingId = <<id>>,
     !.error = <<>>]

\* content: m.content + chunk
appendToStream(state, chunk) ==
  IF state.currentStreamingId = <<>> THEN state
  ELSE [state EXCEPT
          !.messages =
            [i \in DOMAIN state.messages |->
               LET m == state.messages[i]
               IN  IF <<m.id>> = state.currentStreamingId
                   THEN [m EXCEPT !.content = Append(@, chunk)]
                   ELSE m]]

\* variant of finishStreaming: currentStreamingId is left as it is
finishStreamingKeepingId(state, wasInterrupted) ==
  [state EXCEPT
     !.messages =
       IF wasInterrupted
       THEN [i \in DOMAIN state.messages |->
               LET m == state.messages[i]
               IN  IF <<m.id>> = state.currentStreamingId
                   THEN [m EXCEPT !.wasInterrupted = TRUE]
                   ELSE m]
       ELSE @,
     !.isStreaming = FALSE]

finishStreaming(state, wasInterrupted) ==
  [state EXCEPT
     !.messages =
       IF wasInterrupted
       THEN [i \in DOMAIN state.messages |->
               LET m == state.messages[i]
               IN  IF <<m.id>> = state.currentStreamingId
                   THEN [m EXCEPT !.wasInterrupted = TRUE]
                   ELSE m]
       ELSE @,
     !.isStreaming = FALSE,
     !.currentStreamingId = <<>>]

setError(state, err) ==
  [state EXCEPT !.error = err, !.isStreaming = FALSE,
                !.currentStreamingId = <<>>]

clearChat(state) ==
  [messages |-> <<>>, isStreaming |-> FALSE, currentStreamingId |-> <<>>,
   error |-> <<>>]

clearError(state) == [state EXCEPT !.error = <<>>]

------------------------------------------------------------------------------
\* The chat hook (useNetLensChat)

\* the components that call the hook, each with an abortControllerRef of its
\* own: ChatPanel takes sendMessage and stop, Toolbar takes sendQuickAction
Hooks == {"ChatPanel", "Toolbar"}

\* the quick actions drawn, of "security", "performance" and "explain"
QuickActions == {"security"}

\* messages.slice(-10)
HistoryLength == 10

getSelectedRequests == filter(requests, LAMBDA r : r.id \in selected)

\* the first user message of a call that has no history: the context built
\* from the sanitized requests, stood for by the ids of those requests
contextMessage(selectedRequests) ==
  [role |-> "user",
   content |-> <<"Here are the HTTP requests to analyze:">>
                 \o [i \in DOMAIN selectedRequests |->
                       ToString(selectedRequests[i].id)]]

\* messages.slice(-10).map((m) => ({ role, content }))
historyMessages(msgs) ==
  LET from == IF Len(msgs) > HistoryLength THEN Len(msgs) - HistoryLength + 1
              ELSE 1
  IN  [i \in 1..(Len(msgs) - from + 1) |->
         [role |-> msgs[from + i - 1].role,
          content |-> msgs[from + i - 1].content]]

\* the argument of streamText, with what the settings store held at the call
streamText(system, msgs) ==
  [system |-> system, messages |-> msgs,
   hasAcceptedPrivacyWarning |-> hasAcceptedPrivacyWarning,
   selectedRequests |-> getSelectedRequests]

\* sendMessage up to its first await; messages is the list the component
\* rendered with, the one before this call's addUserMessage
sendMessage(hook, content, systemPrompt) ==
  /\ ~isStreaming
  /\ LET selectedRequests == getSelectedRequests
         requestIds == [i \in DOMAIN selectedRequests |->
                          selectedRequests[i].id]
         asked == addUserMessage(chatState, nextMessageId, content, requestIds)
         history == historyMessages(messages)
         started == startAssistantMessage(asked, nextMessageId + 1)
     IN  IF Len(selectedRequests) = 0
         THEN /\ setChat(setError(chatState, <<"No requests selected">>))
              /\ UNCHANGED <<nextMessageId, abortController, streamBy,
                             modelCalls>>
         ELSE /\ nextMessageId + 1 <= MaxMessages
              /\ setChat(started)
              /\ nextMessageId' = nextMessageId + 2
              /\ abortController' = [abortController EXCEPT ![hook] = "live"]
              /\ streamBy' = hook
              /\ modelCalls' =
                   Append(modelCalls,
                          streamText(systemPrompt,
                                     (IF Len(history) = 0
                                      THEN <<contextMessage(selectedRequests)>>
                                      ELSE <<>>)
                                       \o history
                                       \o <<[role |-> "user",
                                             content |-> content]>>))

\* sendQuickAction: getQuickActionMessage and getSystemPrompt, then sendMessage
sendQuickAction(hook, action) ==
  IF Cardinality(selected) = 0
  THEN /\ setChat(setError(chatState, <<"No requests selected">>))
       /\ UNCHANGED <<nextMessageId, abortController, streamBy, modelCalls>>
  ELSE sendMessage(hook, <<action>>, action)

\* the end of a sendMessage call: the store as the call leaves it, and finally
endOfCall(hook, state) ==
  /\ setChat(state)
  /\ abortController' = [abortController EXCEPT ![hook] = "none"]
  /\ streamBy' = "none"

\* the stream yields a chunk
onChunk(hook, chunk) ==
  IF abortController[hook] = "aborted"
  THEN endOfCall(hook, finishStreaming(chatState, FALSE))
  ELSE /\ setChat(appendToStream(chatState, chunk))
       /\ UNCHANGED <<abortController, streamBy>>

\* the stream is done
onDone(hook) == endOfCall(hook, finishStreaming(chatState, FALSE))

\* the stream throws
onThrow(hook, name) ==
  IF name = "AbortError"
  THEN endOfCall(hook, finishStreaming(chatState, TRUE))
  ELSE endOfCall(hook, finishStreaming(setError(chatState, <<"failed">>), TRUE))

stop(hook) ==
  abortController' =
    IF abortController[hook] # "none"
    THEN [abortController EXCEPT ![hook] = "aborted"]
    ELSE abortController

\* no message, no stream, no call to the model, the warning not shown
InitChat ==
  /\ messages = <<>>
  /\ isStreaming = FALSE
  /\ currentStreamingId = <<>>
  /\ error = <<>>
  /\ nextMessageId = 1
  /\ hasAcceptedPrivacyWarning = FALSE
  /\ isPrivacyWarningOpen = FALSE
  /\ abortController = [hook \in Hooks |-> "none"]
  /\ streamBy = "none"
  /\ modelCalls = <<>>
  /\ stoppedIds = {}
  /\ failedIds = {}
  /\ chatOp = "none"

------------------------------------------------------------------------------
\* The history load of useNetworkCapture (getExistingRequests)

\* the checks of the loop of getExistingRequests on one entry of the log
passesHistoryChecks(entry, scope, patterns, page) ==
  /\ ~matchesExclusionPattern(entry.url, patterns)
  /\ page /= <<>> => shouldCaptureRequest(entry, scope, page)

\* the entries of the log the loop builds records from, each with its place
\* in the log
historyEntries(log, scope, patterns, page) ==
  filter([i \in DOMAIN log |-> [ex |-> i, entry |-> log[i]]],
         LAMBDA h : passesHistoryChecks(h.entry, scope, patterns, page))

\* the panel is not open
InitPanel ==
  /\ harLog = <<>>
  /\ inspectedUrl = PageA
  /\ historyPc = "idle"
  /\ historyLog = <<>>
  /\ historyQueue = <<>>
  /\ historyOrigin = {}

InitLib == InitSanitizer /\ InitRules /\ InitChat /\ InitPanel /\ InitContext /\ InitClassifier

Init == InitStore /\ InitDrawer /\ InitCapture /\ InitSettings /\ InitHist /\ InitLib

------------------------------------------------------------------------------
\* The store driven through its whole interface

\* a record is built (its id generated) and handed to addRequest
AddRequestUpTo(limit) ==
  /\ nextId <= limit
  /\ \E entry \in StoreEntries :
       addRequest(parseHarEntry(entry, StoreContent, nextId))
  /\ nextId' = nextId + 1

AddRequestStep == AddRequestUpTo(MaxIds)

RemoveRequestStep == \E id \in IdSpace : removeRequest(id)
ToggleSelectedStep == \E id \in IdSpace : toggleSelected(id)
SetSelectedStep == \E ids \in SUBSET IdSpace : setSelected(ids)
ToggleFavoriteStep == \E id \in IdSpace : toggleFavorite(id)
SetPausedStep == \E paused \in BOOLEAN : setPaused(paused)
SetMaxRequestsStep == \E max \in Capacities : setMaxRequests(max)
SetSearchQueryStep == \E query \in Queries : setSearchQuery(query)

Purged == favorites' /= favorites \/ selected' /= selected

AddOutcome ==
  IF isPaused THEN "addRequest: dropped"
  ELSE IF Len(requests') > Len(requests) THEN "addRequest: appended"
  ELSE IF Purged THEN "addRequest: evicted and purged"
  ELSE "addRequest: evicted"

SetMaxOutcome ==
  IF Len(requests') = Len(requests) THEN "setMaxRequests: kept"
  ELSE IF Purged THEN "setMaxRequests: trimmed and purged"
  ELSE "setMaxRequests: trimmed"

\* the frame and the history of a store operation other than addRequest
Other(name) ==
  /\ lastOp' = name
  /\ run' = <<>>
  /\ UNCHANGED <<nextId, dropped, replayResult, libVars, drawerVars, captureVars>>

\* the history of an addRequest call
AddHistory ==
  /\ lastOp' = AddOutcome
  /\ run' = IF isPaused THEN <<>> ELSE Append(run, nextId)
  /\ dropped' = IF isPaused THEN dropped \cup {nextId} ELSE dropped
  /\ UNCHANGED <<replayResult, libVars, drawerVars, captureVars>>

DoAddRequest == AddRequestStep /\ AddHistory

DoRemoveRequest == RemoveRequestStep /\ Other("other")
DoClearRequests == clearRequests /\ Other("other")
DoToggleSelected == ToggleSelectedStep /\ Other("toggleSelected")
DoSelectAll == selectAll /\ Other("other")
DoDeselectAll == deselectAll /\ Other("other")
DoSetSelected == SetSelectedStep /\ Other("other")
DoToggleFavorite == ToggleFavoriteStep /\ Other("toggleFavorite")
DoClearFavorites == clearFavorites /\ Other("other")
DoSetPaused == SetPausedStep /\ Other("other")
DoSetMaxRequests == SetMaxRequestsStep /\ Other(SetMaxOutcome)
DoSetSearchQuery == SetSearchQueryStep /\ Other("other")

Next ==
  \/ DoAddRequest
  \/ DoRemoveRequest
  \/ DoClearRequests
  \/ DoToggleSelected
  \/ DoSelectAll
  \/ DoDeselectAll
  \/ DoSetSelected
  \/ DoToggleFavorite
  \/ DoClearFavorites
  \/ DoSetPaused
  \/ DoSetMaxRequests
  \/ DoSetSearchQuery

Spec == Init /\ [][Next]_vars

------------------------------------------------------------------------------
\* Runs of addRequest calls longer than the capacity, on a store whose
\* favorites, selection, capacity and pause flag are set freely in between

RunIds == 1..MaxRun

RunAddRequest == AddRequestUpTo(MaxRun) /\ AddHistory
RunToggleSelected == (\E id \in RunIds : toggleSelected(id)) /\ Other("toggleSelected")
RunToggleFavorite == (\E id \in RunIds : toggleFavorite(id)) /\ Other("toggleFavorite")
RunSetPaused == SetPausedStep /\ Other("other")
RunSetMaxRequests == SetMaxRequestsStep /\ Other(SetMaxOutcome)

RunNext ==
  \/ RunAddRequest
  \/ RunToggleSelected
  \/ RunToggleFavorite
  \/ RunSetPaused
  \/ RunSetMaxRequests

RunSpec == Init /\ [][RunNext]_vars

------------------------------------------------------------------------------
\* The store together with the drawer that shows one of its records

\* a store operation here: the drawer is rendered again
InDrawer ==
  /\ UNCHANGED <<nextId, activeRequestId, drawerTab, captureVars, histVars, libVars>>
  /\ renderBodyDisplay
\* the frame of a drawer operation
OnDrawer == UNCHANGED <<nextId, captureVars, histVars, libVars>>

DrawerAddRequest ==
  /\ AddRequestStep
  /\ UNCHANGED <<activeRequestId, drawerTab, captureVars, histVars, libVars>>
  /\ renderBodyDisplay
DrawerRemoveRequest == RemoveRequestStep /\ InDrawer
DrawerClearRequests == clearRequests /\ InDrawer
DrawerToggleSelected == ToggleSelectedStep /\ InDrawer
DrawerSelectAll == selectAll /\ InDrawer
DrawerDeselectAll == deselectAll /\ InDrawer
DrawerSetSelected == SetSelectedStep /\ InDrawer
DrawerToggleFavorite == ToggleFavoriteStep /\ InDrawer
DrawerClearFavorites == clearFavorites /\ InDrawer
DrawerSetPaused == SetPausedStep /\ InDrawer
DrawerSetMaxRequests == SetMaxRequestsStep /\ InDrawer
DrawerSetSearchQuery == SetSearchQueryStep /\ InDrawer

\* RequestItem.handleRowClick: a listed record is opened
OpenDrawer ==
  /\ \E r \in Range(requests) : openDrawer(r.id)
  /\ UNCHANGED storeVars
  /\ renderBodyDisplay
  /\ OnDrawer
CloseDrawer == closeDrawer /\ UNCHANGED storeVars /\ renderBodyDisplay /\ OnDrawer
\* a tab button of the open drawer
SetDrawerTab ==
  /\ activeRequestId \in Ids(requests)
  /\ \E tab \in DrawerTabs : setDrawerTab(tab)
  /\ UNCHANGED storeVars
  /\ renderBodyDisplay
  /\ OnDrawer
HandleLoadFull == handleLoadFull /\ UNCHANGED <<activeRequestId, drawerTab>> /\ OnDrawer
HandleLoadFullSettled ==
  /\ \E content \in ContentOutcomes : handleLoadFullSettled(content)
  /\ UNCHANGED <<activeRequestId, drawerTab>>
  /\ OnDrawer

DrawerNext ==
  \/ DrawerAddRequest
  \/ DrawerRemoveRequest
  \/ DrawerClearRequests
  \/ DrawerToggleSelected
  \/ DrawerSelectAll
  \/ DrawerDeselectAll
  \/ DrawerSetSelected
  \/ DrawerToggleFavorite
  \/ DrawerClearFavorites
  \/ DrawerSetPaused
  \/ DrawerSetMaxRequests
  \/ DrawerSetSearchQuery
  \/ OpenDrawer
  \/ CloseDrawer
  \/ SetDrawerTab
  \/ HandleLoadFull
  \/ HandleLoadFullSettled

DrawerSpec == Init /\ [][DrawerNext]_vars

------------------------------------------------------------------------------
\* Live capture and replay feeding the store

CaptureScopes == {"page", "all"}
ExclusionLists == {<< <<"/","z">> >>}
PageUrls == {<<>>, PageA, PageB}

\* settings as loaded from storage
CaptureInit ==
  /\ requests = <<>>
  /\ favorites = {}
  /\ selected = {}
  /\ isPaused = FALSE
  /\ maxRequests \in Capacities
  /\ searchQuery = <<>>
  /\ nextId = 1
  /\ InitDrawer /\ InitCapture /\ InitHist /\ InitLib
  /\ captureScope \in CaptureScopes
  /\ exclusionPatterns \in ExclusionLists

\* records that are built or may still be built by a suspended call
Building == nextId - 1 + Cardinality(inflight) + Cardinality(replays)

RequestFinished ==
  /\ evCount < MaxEvents
  /\ Building < MaxIds
  /\ \E entry \in LiveEntries : handleRequestFinished(entry)
  /\ UNCHANGED <<drawerVars, histVars, libVars, captureScope, exclusionPatterns,
                 isCapturing, pageUrl, pagePending, replays,
                 replayError>>

GetContentCallback ==
  /\ \E h \in inflight, content \in ContentOutcomes : getContentCallback(h, content)
  /\ UNCHANGED <<drawerVars, histVars, libVars, captureScope, exclusionPatterns,
                 isCapturing, pageUrl, pagePending, evCount, replays,
                 replayError>>

PageUrlResolved ==
  /\ \E url \in PageUrls : pageUrlResolved(url)
  /\ UNCHANGED <<storeVars, nextId, drawerVars, histVars, libVars, captureScope,
                 exclusionPatterns, isCapturing, inflight, evCount, replays, replayError, origin>>

Navigated ==
  /\ \E url \in PageUrls \ {<<>>} : handleNavigation(url)
  /\ UNCHANGED <<storeVars, nextId, drawerVars, histVars, libVars, captureScope,
                 exclusionPatterns, isCapturing, pagePending, inflight, evCount,
                 replays, replayError, origin>>

CaptureEffect ==
  /\ captureEffect
  /\ UNCHANGED <<storeVars, nextId, drawerVars, histVars, libVars, captureScope,
                 exclusionPatterns, inflight, evCount, replays,
                 replayError, origin>>

CaptureSetPaused ==
  SetPausedStep /\ UNCHANGED <<nextId, drawerVars, captureVars, histVars, libVars>>

HandleReplay ==
  /\ Building < MaxIds
  /\ \E options \in ReplayOptions : handleReplay(options)
  /\ UNCHANGED <<storeVars, nextId, drawerVars, histVars, libVars, captureScope,
                 exclusionPatterns, isCapturing, pageUrl, pagePending, inflight,
                 evCount, origin>>

ReplayFetched ==
  /\ \E call \in replays, response \in Responses : replayFetched(call, response)
  /\ UNCHANGED <<histVars, libVars, captureScope, exclusionPatterns, isCapturing, pageUrl,
                 pagePending, inflight, evCount>>

ReplayFailed ==
  /\ \E call \in replays, thrown \in FetchErrors \cup {NonError} :
       replayFailed(call, thrown)
  /\ UNCHANGED <<storeVars, nextId, drawerVars, histVars, libVars, captureScope,
                 exclusionPatterns, isCapturing, pageUrl, pagePending, inflight,
                 evCount, origin>>

CaptureNext ==
  \/ RequestFinished
  \/ GetContentCallback
  \/ PageUrlResolved
  \/ Navigated
  \/ CaptureEffect
  \/ CaptureSetPaused

CaptureSpec == CaptureInit /\ [][CaptureNext]_vars

\* replay from the editor while live traffic is captured
ReplayNext ==
  \/ RequestFinished
  \/ GetContentCallback
  \/ CaptureEffect
  \/ CaptureSetPaused
  \/ HandleReplay
  \/ ReplayFetched
  \/ ReplayFailed

ReplaySpec == CaptureInit /\ [][ReplayNext]_vars

------------------------------------------------------------------------------
\* Replay from the editor into a store that holds captured records, with
\* favorites, selection and pause set freely while the fetch is pending

\* the frame and the history of a store operation here
InEditor(name) ==
  /\ lastOp' = name
  /\ UNCHANGED <<drawerVars, captureVars, run, dropped, replayResult, libVars>>

EditorAddRequest ==
  AddRequestUpTo(MaxIds - Cardinality(replays)) /\ InEditor(AddOutcome)

EditorToggleFavorite ==
  ToggleFavoriteStep /\ UNCHANGED nextId /\ InEditor("other")

EditorToggleSelected ==
  ToggleSelectedStep /\ UNCHANGED nextId /\ InEditor("other")

EditorSetPaused == SetPausedStep /\ UNCHANGED nextId /\ InEditor("other")

\* as HandleReplay, ReplayFetched and ReplayFailed, with the history of the
\* result replayRequest returns and of the addRequest call handleReplay makes
EditorHandleReplay ==
  /\ Building < MaxIds
  /\ \E options \in ReplayOptions :
       /\ handleReplay(options)
       /\ replayResult' = IF isValidUrl(options.url) THEN replayResult
                          ELSE <<replayRequest(options, NoFetch, nextId)>>
       /\ lastOp' = IF isValidUrl(options.url) THEN "handleReplay: fetch issued"
                    ELSE "handleReplay: invalid URL"
  /\ UNCHANGED <<storeVars, nextId, drawerVars, run, dropped, libVars, captureScope,
                 exclusionPatterns, isCapturing, pageUrl, pagePending, inflight,
                 evCount, origin>>

EditorReplayFetched ==
  /\ \E call \in replays, response \in Responses :
       /\ replayFetched(call, response)
       /\ replayResult' = <<replayRequest(call.options, [response |-> response], nextId)>>
  /\ lastOp' = AddOutcome
  /\ UNCHANGED <<run, dropped, libVars, captureScope, exclusionPatterns, isCapturing, pageUrl,
                 pagePending, inflight, evCount>>

EditorReplayFailed ==
  /\ \E call \in replays, thrown \in FetchErrors \cup {NonError} :
       /\ replayFailed(call, thrown)
       /\ replayResult' = <<replayRequest(call.options, [thrown |-> thrown], nextId)>>
  /\ lastOp' = "handleReplay: failed"
  /\ UNCHANGED <<storeVars, nextId, drawerVars, run, dropped, libVars, captureScope,
                 exclusionPatterns, isCapturing, pageUrl, pagePending, inflight,
                 evCount, origin>>

EditorNext ==
  \/ EditorAddRequest
  \/ EditorToggleFavorite
  \/ EditorToggleSelected
  \/ EditorSetPaused
  \/ EditorHandleReplay
  \/ EditorReplayFetched
  \/ EditorReplayFailed

\* the editor with the default capture scope
EditorInit ==
  /\ requests = <<>>
  /\ favorites = {}
  /\ selected = {}
  /\ isPaused = FALSE
  /\ maxRequests \in Capacities
  /\ searchQuery = <<>>
  /\ nextId = 1
  /\ InitDrawer /\ InitCapture /\ InitHist /\ InitSettings /\ InitLib

EditorSpec == EditorInit /\ [][EditorNext]_vars

------------------------------------------------------------------------------
\* The sanitizer applied to a text and to its own result, or to a record

programVars == <<storeVars, nextId, drawerVars, captureVars, histVars>>

\* the frame of a sanitizer call: it reads its arguments and nothing else
OnSanitizer ==
  UNCHANGED <<programVars, settingsVars, contextVars, classifierVars, chatVars, panelVars, inputValue,
              inputRules, inputRequest>>

SanitizeValue ==
  /\ sanitizedValue = <<>>
  /\ sanitizedRequest = <<>>
  /\ sanitizedValue' = <<sanitizeValue(inputValue, inputRules)>>
  /\ UNCHANGED <<resanitizedValue, sanitizedRequest>>
  /\ OnSanitizer

SanitizeAgain ==
  /\ sanitizedValue /= <<>>
  /\ resanitizedValue = <<>>
  /\ resanitizedValue' = <<sanitizeValue(sanitizedValue[1], inputRules)>>
  /\ UNCHANGED <<sanitizedValue, sanitizedRequest>>
  /\ OnSanitizer

SanitizeRequest ==
  /\ sanitizedValue = <<>>
  /\ sanitizedRequest = <<>>
  /\ sanitizedRequest' = <<sanitizeRequest(inputRequest, inputRules)>>
  /\ UNCHANGED <<sanitizedValue, resanitizedValue>>
  /\ OnSanitizer

SanitizeNext ==
  \/ SanitizeValue
  \/ SanitizeAgain
  \/ SanitizeRequest

SanitizeInit ==
  /\ InitStore /\ InitDrawer /\ InitCapture /\ InitSettings /\ InitHist
  /\ InitRules /\ InitChat /\ InitPanel /\ InitContext /\ InitClassifier
  /\ inputValue \in Texts
  /\ inputRules \in RuleLists
  /\ inputRequest \in SanitizerRequests(inputValue)
  /\ sanitizedValue = <<>>
  /\ resanitizedValue = <<>>
  /\ sanitizedRequest = <<>>

SanitizeSpec == SanitizeInit /\ [][SanitizeNext]_vars

------------------------------------------------------------------------------
\* The rule actions of the settings store, a bounded number of calls

OnRules ==
  /\ ruleActions < MaxRuleActions
  /\ ruleActions' = ruleActions + 1
  /\ UNCHANGED settingsMaxRequests
  /\ UNCHANGED <<storeVars, drawerVars, captureVars, histVars, sanitizerVars,
                 contextVars, classifierVars, chatVars, panelVars>>

AddSanitizationRule ==
  /\ nextId <= MaxIds
  /\ \E newFields \in NewRules : addSanitizationRule(newFields, GeneratedIds[nextId])
  /\ nextId' = nextId + 1
  /\ OnRules

UpdateSanitizationRule ==
  /\ \E id \in RuleIds, updates \in RuleUpdates : updateSanitizationRule(id, updates)
  /\ UNCHANGED nextId
  /\ OnRules

RemoveSanitizationRule ==
  /\ \E id \in RuleIds : removeSanitizationRule(id)
  /\ UNCHANGED nextId
  /\ OnRules

ReorderSanitizationRules ==
  /\ \E ruleIds \in RuleOrders : reorderSanitizationRules(ruleIds)
  /\ UNCHANGED nextId
  /\ OnRules

RulesNext ==
  \/ AddSanitizationRule
  \/ UpdateSanitizationRule
  \/ RemoveSanitizationRule
  \/ ReorderSanitizationRules

RulesSpec == Init /\ [][RulesNext]_vars

------------------------------------------------------------------------------
\* buildContext applied to a list of requests

BuildContext ==
  /\ context = <<>>
  /\ context' = <<buildContext(contextRequests)>>
  /\ UNCHANGED <<programVars, sanitizerVars, settingsVars, classifierVars, chatVars, panelVars,
                 contextRequests, contextText, tokenBudget, truncatedContext>>

ContextNext ==
  \/ BuildContext

ContextInit ==
  /\ InitStore /\ InitDrawer /\ InitCapture /\ InitSettings /\ InitHist
  /\ InitSanitizer /\ InitRules /\ InitChat /\ InitPanel /\ InitClassifier
  /\ contextRequests \in ContextInputs
  /\ context = <<>>
  /\ InitTruncate

ContextSpec == ContextInit /\ [][ContextNext]_vars

------------------------------------------------------------------------------
\* truncateContext applied to a text and a budget

TruncateContext ==
  /\ truncatedContext = <<>>
  /\ truncatedContext' = <<truncateContext(contextText, tokenBudget)>>
  /\ UNCHANGED <<programVars, sanitizerVars, settingsVars, classifierVars, chatVars, panelVars,
                 contextRequests, context, contextText, tokenBudget>>

TruncateNext ==
  \/ TruncateContext

TruncateInit ==
  /\ InitStore /\ InitDrawer /\ InitCapture /\ InitSettings /\ InitHist
  /\ InitSanitizer /\ InitRules /\ InitChat /\ InitPanel /\ InitClassifier
  /\ contextRequests = <<>>
  /\ context = <<>>
  /\ contextText \in TruncateTexts
  /\ tokenBudget \in TruncateBudgets
  /\ truncatedContext = <<>>

TruncateSpec == TruncateInit /\ [][TruncateNext]_vars

------------------------------------------------------------------------------
\* The classifier applied to a request as parseHarEntry and as replayRequest
\* apply it

OnClassifier ==
  UNCHANGED <<programVars, sanitizerVars, settingsVars, contextVars, chatVars,
              panelVars,
              exchange>>

\* parseHarEntry: request.isGraphQL = isGraphQLRequest(request)
ClassifyCaptured ==
  /\ capturedIsGraphQL = <<>>
  /\ capturedIsGraphQL' = <<isGraphQLRequest(exchange)>>
  /\ UNCHANGED replayedIsGraphQL
  /\ OnClassifier

\* replayRequest: isGraphQL: isGraphQLRequest(url, body)
ClassifyReplayed ==
  /\ replayedIsGraphQL = <<>>
  /\ replayedIsGraphQL' = <<isGraphQLRequestOfReplay(exchange.url, exchange.requestBody)>>
  /\ UNCHANGED capturedIsGraphQL
  /\ OnClassifier

ClassifyNext ==
  \/ ClassifyCaptured
  \/ ClassifyReplayed

ClassifyInit ==
  /\ InitStore /\ InitDrawer /\ InitCapture /\ InitSettings /\ InitHist
  /\ InitSanitizer /\ InitRules /\ InitChat /\ InitPanel /\ InitContext
  /\ exchange \in Exchanges
  /\ capturedIsGraphQL = <<>>
  /\ replayedIsGraphQL = <<>>

ClassifySpec == ClassifyInit /\ [][ClassifyNext]_vars

------------------------------------------------------------------------------
\* The capture store beside the capacity of the settings store

OnSettings ==
  /\ lastOp' = "settings"
  /\ UNCHANGED <<storeVars, nextId, drawerVars, captureVars, run, dropped,
                 replayResult, sanitizerVars, contextVars, classifierVars, chatVars, panelVars,
                 ruleActions>>

\* the Max Requests slider
SettingsSetMaxRequests ==
  /\ \E max \in Capacities : settingsSetMaxRequests(max)
  /\ UNCHANGED sanitizationRules
  /\ OnSettings

LoadSettings ==
  /\ \E result \in StoredSettings : loadSettings(result)
  /\ OnSettings

CapacityAddRequest == AddRequestStep /\ AddHistory
CapacityClearRequests == clearRequests /\ Other("other")
CapacityToggleSelected == ToggleSelectedStep /\ Other("toggleSelected")
CapacityToggleFavorite == ToggleFavoriteStep /\ Other("toggleFavorite")
CapacitySetPaused == SetPausedStep /\ Other("other")

CapacityNext ==
  \/ CapacityAddRequest
  \/ CapacityClearRequests
  \/ CapacityToggleSelected
  \/ CapacityToggleFavorite
  \/ CapacitySetPaused
  \/ SettingsSetMaxRequests
  \/ LoadSettings

CapacitySpec == Init /\ [][CapacityNext]_vars

------------------------------------------------------------------------------
\* The chat store driven through its whole interface

ChatContents == {<<"q">>}

\* the message that is streaming has fewer than MaxChunks chunks
RoomInStream ==
  \A i \in DOMAIN messages :
    <<messages[i].id>> = currentStreamingId
      => Len(messages[i].content) < MaxChunks
ChatErrors == {<<>>, <<"failed">>}

nonChatVars ==
  <<storeVars, nextId, drawerVars, captureVars, histVars, sanitizerVars,
    settingsVars, contextVars, classifierVars, panelVars>>

OnChatStore(name) ==
  /\ chatOp' = name
  /\ UNCHANGED <<nonChatVars, privacyVars, hookVars>>

StoreAddUserMessage ==
  /\ nextMessageId <= MaxMessages
  /\ \E content \in ChatContents, requestContext \in {<<1>>} :
       setChat(addUserMessage(chatState, nextMessageId, content,
                              requestContext))
  /\ nextMessageId' = nextMessageId + 1
  /\ OnChatStore("addUserMessage")

StoreStartAssistantMessage ==
  /\ nextMessageId <= MaxMessages
  /\ setChat(startAssistantMessage(chatState, nextMessageId))
  /\ nextMessageId' = nextMessageId + 1
  /\ OnChatStore("startAssistantMessage")

StoreAppendToStream ==
  /\ RoomInStream
  /\ setChat(appendToStream(chatState, "c"))
  /\ UNCHANGED nextMessageId
  /\ OnChatStore("appendToStream")

StoreFinishStreaming ==
  /\ \E wasInterrupted \in BOOLEAN :
       setChat(finishStreaming(chatState, wasInterrupted))
  /\ UNCHANGED nextMessageId
  /\ OnChatStore("finishStreaming")

StoreSetError ==
  /\ \E err \in ChatErrors : setChat(setError(chatState, err))
  /\ UNCHANGED nextMessageId
  /\ OnChatStore("setError")

StoreClearChat ==
  /\ setChat(clearChat(chatState))
  /\ UNCHANGED nextMessageId
  /\ OnChatStore("clearChat")

StoreClearError ==
  /\ setChat(clearError(chatState))
  /\ UNCHANGED nextMessageId
  /\ OnChatStore("clearError")

ChatStoreNext ==
  \/ StoreAddUserMessage
  \/ StoreStartAssistantMessage
  \/ StoreAppendToStream
  \/ StoreFinishStreaming
  \/ StoreSetError
  \/ StoreClearChat
  \/ StoreClearError

ChatStoreSpec == Init /\ [][ChatStoreNext]_vars

------------------------------------------------------------------------------
\* The chat as the panel drives it: the capture store's selection, the two
\* components that call the hook, the stream, and the privacy warning

OnChat == UNCHANGED <<nonChatVars, chatOp>>

OnSelection ==
  UNCHANGED <<drawerVars, captureVars, histVars, sanitizerVars, settingsVars,
              contextVars, classifierVars, chatVars, panelVars>>

\* the capture store admits a record
ChatAddRequest ==
  /\ nextId <= MaxIds
  /\ \E entry \in {e \in StoreEntries : e.method = GET} :
       addRequest(parseHarEntry(entry, StoreContent, nextId))
  /\ nextId' = nextId + 1
  /\ OnSelection

\* the checkbox of a listed record is toggled
ChatToggleSelected ==
  /\ \E i \in DOMAIN requests : toggleSelected(requests[i].id)
  /\ UNCHANGED nextId
  /\ OnSelection

\* ChatInput's onSend; the input is disabled without a selection
SendMessage ==
  /\ Cardinality(selected) > 0
  /\ \E content \in ChatContents : sendMessage("ChatPanel", content, "explain")
  /\ UNCHANGED <<privacyVars, stoppedIds, failedIds>>
  /\ OnChat

\* a quick action button of the toolbar; the buttons are disabled without a
\* selection and while a message is streaming
SendQuickAction ==
  /\ Cardinality(selected) > 0
  /\ ~isStreaming
  /\ \E action \in QuickActions : sendQuickAction("Toolbar", action)
  /\ UNCHANGED <<privacyVars, stoppedIds, failedIds>>
  /\ OnChat

StreamChunk ==
  /\ streamBy # "none"
  /\ RoomInStream
  /\ onChunk(streamBy, "c")
  /\ UNCHANGED <<nextMessageId, privacyVars, modelCalls, stoppedIds, failedIds>>
  /\ OnChat

StreamDone ==
  /\ streamBy # "none"
  /\ onDone(streamBy)
  /\ UNCHANGED <<nextMessageId, privacyVars, modelCalls, stoppedIds, failedIds>>
  /\ OnChat

\* a stream throws an AbortError only once its signal is aborted
StreamThrow ==
  /\ streamBy # "none"
  /\ \E name \in {"AbortError", "Error"} :
       /\ name = "AbortError" => abortController[streamBy] = "aborted"
       /\ onThrow(streamBy, name)
       /\ failedIds' = IF name = "Error"
                       THEN failedIds \cup {currentStreamingId[1]}
                       ELSE failedIds
  /\ UNCHANGED <<nextMessageId, privacyVars, modelCalls, stoppedIds>>
  /\ OnChat

\* ChatInput's onStop, shown while a message is streaming
Stop ==
  /\ isStreaming
  /\ stop("ChatPanel")
  /\ stoppedIds' = stoppedIds \cup {currentStreamingId[1]}
  /\ UNCHANGED <<chatStoreVars, nextMessageId, privacyVars, streamBy,
                 modelCalls, failedIds>>
  /\ OnChat

\* the Clear button of the chat, disabled while a message is streaming
ClearChat ==
  /\ ~isStreaming
  /\ Len(messages) > 0
  /\ setChat(clearChat(chatState))
  /\ UNCHANGED <<nextMessageId, privacyVars, hookVars>>
  /\ OnChat

\* handleRetry of the error banner
HandleRetry ==
  /\ error # <<>>
  /\ setChat(clearError(chatState))
  /\ UNCHANGED <<nextMessageId, privacyVars, hookVars>>
  /\ OnChat

\* openPrivacyWarning of the ui store
OpenPrivacyWarning ==
  /\ isPrivacyWarningOpen' = TRUE
  /\ UNCHANGED <<chatStoreVars, nextMessageId, hasAcceptedPrivacyWarning,
                 hookVars>>
  /\ OnChat

\* PrivacyWarning renders only while isPrivacyWarningOpen
HandleAccept ==
  /\ isPrivacyWarningOpen
  /\ hasAcceptedPrivacyWarning' = TRUE
  /\ isPrivacyWarningOpen' = FALSE
  /\ UNCHANGED <<chatStoreVars, nextMessageId, hookVars>>
  /\ OnChat

HandleCancel ==
  /\ isPrivacyWarningOpen
  /\ isPrivacyWarningOpen' = FALSE
  /\ UNCHANGED <<chatStoreVars, nextMessageId, hasAcceptedPrivacyWarning,
                 hookVars>>
  /\ OnChat

ChatNext ==
  \/ ChatAddRequest
  \/ ChatToggleSelected
  \/ SendMessage
  \/ SendQuickAction
  \/ StreamChunk
  \/ StreamDone
  \/ StreamThrow
  \/ Stop
  \/ ClearChat
  \/ HandleRetry

ChatSpec == Init /\ [][ChatNext]_vars

\* the chat with the privacy warning beside it
PrivacyNext ==
  \/ ChatAddRequest
  \/ ChatToggleSelected
  \/ SendMessage
  \/ SendQuickAction
  \/ StreamChunk
  \/ StreamDone
  \/ OpenPrivacyWarning
  \/ HandleAccept
  \/ HandleCancel

PrivacySpec == Init /\ [][PrivacyNext]_vars

------------------------------------------------------------------------------
\* The panel opening on a page with traffic: the history load beside the live
\* listener

\* the exchanges that finish: one of the page's origin loaded inline, one of
\* another origin with a deferred body, one that is excluded
PanelEntries ==
  { [method |-> GET, url |-> UrlA, status |-> 200, size |-> MAX_BODY_SIZE - 1],
    [method |-> GET, url |-> UrlB, status |-> 200, size |-> MAX_BODY_SIZE + 1],
    [method |-> GET, url |-> UrlC, status |-> 200, size |-> MAX_BODY_SIZE - 1] }

\* window.location.href as eval hands it over: the URL, or "" for a result
\* that is no string
EvalResults == {inspectedUrl, <<>>}

OnPanel == UNCHANGED <<drawerVars, histVars, sanitizerVars, settingsVars,
                       contextVars, classifierVars, chatVars, captureScope,
                       exclusionPatterns, replays, replayError>>

\* the results of the history load are added in one run of the event loop
NotAdding == historyPc /= "adding"

\* the two effects of useNetworkCapture at the mount: getExistingRequests is
\* called, then startCapture
Mount ==
  /\ historyPc = "idle"
  /\ historyPc' = "getHAR"
  /\ captureEffect
  /\ UNCHANGED <<storeVars, nextId, inflight, evCount, origin, harLog,
                 inspectedUrl, historyLog, historyQueue, historyOrigin>>
  /\ OnPanel

\* an exchange of the page finishes: the browser logs it, and calls the
\* listener if there is one
ExchangeFinished ==
  /\ NotAdding
  /\ Len(harLog) < MaxEvents
  /\ \E entry \in PanelEntries :
       /\ harLog' = Append(harLog, entry)
       /\ IF isCapturing
            THEN handleRequestFinished(entry)
            ELSE UNCHANGED <<storeVars, nextId, inflight, evCount, origin>>
  /\ UNCHANGED <<isCapturing, pageUrl, pagePending, inspectedUrl, historyPc,
                 historyLog, historyQueue, historyOrigin>>
  /\ OnPanel

PanelGetContentCallback ==
  /\ NotAdding
  /\ \E h \in inflight, content \in ContentOutcomes : getContentCallback(h, content)
  /\ UNCHANGED <<isCapturing, pageUrl, pagePending, evCount, panelVars>>
  /\ OnPanel

PanelPageUrlResolved ==
  /\ NotAdding
  /\ \E url \in EvalResults : pageUrlResolved(url)
  /\ UNCHANGED <<storeVars, nextId, isCapturing, inflight, evCount, origin,
                 panelVars>>
  /\ OnPanel

\* the inspected page navigates; onNavigated calls the listener if there is one
PanelNavigated ==
  /\ NotAdding
  /\ \E url \in {PageA, PageB} \ {inspectedUrl} :
       /\ inspectedUrl' = url
       /\ IF isCapturing THEN handleNavigation(url) ELSE UNCHANGED pageUrl
  /\ UNCHANGED <<storeVars, nextId, isCapturing, pagePending, inflight, evCount,
                 origin, harLog, historyPc, historyLog, historyQueue,
                 historyOrigin>>
  /\ OnPanel

\* getHAR calls back with the log as it is now; the callback awaits the page URL
GetHARCallback ==
  /\ historyPc = "getHAR"
  /\ historyPc' = "eval"
  /\ historyLog' = harLog
  /\ UNCHANGED <<storeVars, nextId, captureVars, harLog, inspectedUrl,
                 historyQueue, historyOrigin>>
  /\ UNCHANGED <<drawerVars, histVars, sanitizerVars, settingsVars, contextVars,
                 classifierVars, chatVars>>

\* the page URL arrives: the loop over the entries runs and the promise
\* resolves with the records to add
HistoryPageUrlResolved ==
  /\ historyPc = "eval"
  /\ \E page \in EvalResults :
       historyQueue' = historyEntries(historyLog, captureScope,
                                      exclusionPatterns, page)
  /\ historyPc' = IF historyQueue' = <<>> THEN "done" ELSE "adding"
  /\ UNCHANGED <<storeVars, nextId, captureVars, harLog, inspectedUrl,
                 historyLog, historyOrigin>>
  /\ UNCHANGED <<drawerVars, histVars, sanitizerVars, settingsVars, contextVars,
                 classifierVars, chatVars>>

\* one turn of: for (const request of requests) addRequest(request); an entry
\* of the log has no getContent, so its record has no body
HistoryAddRequest ==
  /\ historyPc = "adding"
  /\ addRequest(parseHarEntry(Head(historyQueue).entry, UNDEFINED, nextId))
  /\ nextId' = nextId + 1
  /\ historyOrigin' = historyOrigin \cup {[id |-> nextId,
                                           ex |-> Head(historyQueue).ex]}
  /\ historyQueue' = Tail(historyQueue)
  /\ historyPc' = IF Len(historyQueue) = 1 THEN "done" ELSE "adding"
  /\ UNCHANGED <<captureVars, harLog, inspectedUrl, historyLog>>
  /\ UNCHANGED <<drawerVars, histVars, sanitizerVars, settingsVars, contextVars,
                 classifierVars, chatVars>>

PanelNext ==
  \/ Mount
  \/ ExchangeFinished
  \/ PanelGetContentCallback
  \/ PanelPageUrlResolved
  \/ PanelNavigated
  \/ GetHARCallback
  \/ HistoryPageUrlResolved
  \/ HistoryAddRequest

PanelSpec == CaptureInit /\ [][PanelNext]_vars

------------------------------------------------------------------------------
\* Properties of the Capture Store (under Spec)

\* the ids of a list of records, in list order
idsOf(s) == [i \in 1..Len(s) |-> s[i].id]
\* the last n elements of a sequence
lastOf(s, n) == SubSeq(s, Len(s) - n + 1, Len(s))

\* C1: in every reachable state, after any sequence of store operations,
\* favorites and selected contain only ids of records present in requests.
\* toggleFavorite, toggleSelected and setSelected store whatever id they are
\* given, so a state with an id of no stored record is reachable.
C1_SideTablesWithinStore ==
  /\ favorites \subseteq Ids(requests)
  /\ selected \subseteq Ids(requests)

\* C2: after every addRequest and every setMaxRequests (and so in every
\* reachable state) requests holds at most maxRequests records.
C2_LengthWithinCapacity == Len(requests) <= maxRequests

\* C2 witness: setMaxRequests has cut a longer list down to the new capacity
C2_TrimmedToCapacity ==
  /\ lastOp \in {"setMaxRequests: trimmed", "setMaxRequests: trimmed and purged"}
  /\ Len(requests) = maxRequests

\* C3 (under RunSpec): after N > C consecutive addRequest calls on an unpaused
\* store of capacity C (run holds the ids these calls admitted) the store holds exactly
\* the last C of them in admission order, and each admitting step leaves no id
\* it evicted in favorites or selected, in the same step that evicts it.
C3_FifoEviction ==
  /\ [](Len(run) > maxRequests => idsOf(requests) = lastOf(run, maxRequests))
  /\ [][run' /= <<>> =>
          LET evicted == (Ids(requests) \cup {nextId}) \ Ids(requests')
          IN evicted \cap (favorites' \cup selected') = {}]_vars
  /\ [](Len(run) > maxRequests =>
          (Range(run) \ Ids(requests)) \cap (favorites \cup selected) = {})

\* C3 witness: a run of three calls on a store of capacity two, whose last
\* call evicted a record that was a favorite or selected
C3_RunEvictedAndPurged ==
  /\ Len(run) > maxRequests
  /\ maxRequests > 1
  /\ lastOp = "addRequest: evicted and purged"

\* C4: an addRequest on a paused store changes no store state, and the record
\* it was given is never stored later (it is not queued): no stored record has
\* the id of a dropped one.
C4_PausedDrops ==
  /\ [][(isPaused /\ nextId' /= nextId) => UNCHANGED storeVars]_vars
  /\ [](Ids(requests) \cap dropped = {})

\* C4 witness: a record was dropped while paused, capture was resumed and a
\* later record was admitted
C4_DroppedThenResumed ==
  /\ dropped /= {}
  /\ ~isPaused
  /\ lastOp = "addRequest: appended"

\* C5: setMaxRequests(n) with n below the current length leaves the n most
\* recently admitted records in their order, takes the evicted ids out of
\* favorites and selected and keeps every other id, and sets the capacity to n;
\* with n at or above the current length only the capacity changes.
C5_SetMaxRequestsTrims ==
  [][\A n \in Capacities :
       (maxRequests' = n /\ lastOp' \in {"setMaxRequests: kept",
                                         "setMaxRequests: trimmed",
                                         "setMaxRequests: trimmed and purged"})
       => LET len == Len(requests)
              evicted == {requests[i].id : i \in 1..(len - n)}
          IN /\ maxRequests' = n
             /\ isPaused' = isPaused /\ searchQuery' = searchQuery
             /\ IF n < len
                  THEN /\ requests' = [i \in 1..n |-> requests[len - n + i]]
                       /\ favorites' = favorites \ evicted
                       /\ selected' = selected \ evicted
                  ELSE /\ requests' = requests
                       /\ favorites' = favorites
                       /\ selected' = selected]_vars

\* C5 witness: a setMaxRequests below the length evicted a favorite or selected
\* record and kept another id in one of the sets
C5_TrimmedAndPurged ==
  /\ lastOp = "setMaxRequests: trimmed and purged"
  /\ (favorites \cup selected) \cap Ids(requests) /= {}

\* C6: toggleFavorite(id) and toggleSelected(id) change nothing when no stored
\* record has the id, and otherwise flip only the id's membership in the one set.
\* The code does not look at requests: an absent id is added all the same.
C6_ToggleChecksPresence ==
  [][\A id \in IdSpace :
       /\ (lastOp' = "toggleFavorite" /\ toggleFavorite(id)) =>
            IF id \in Ids(requests)
              THEN /\ (id \in favorites') = (id \notin favorites)
                   /\ favorites' \ {id} = favorites \ {id}
                   /\ UNCHANGED <<requests, selected, isPaused, maxRequests, searchQuery>>
              ELSE UNCHANGED storeVars
       /\ (lastOp' = "toggleSelected" /\ toggleSelected(id)) =>
            IF id \in Ids(requests)
              THEN /\ (id \in selected') = (id \notin selected)
                   /\ selected' \ {id} = selected \ {id}
                   /\ UNCHANGED <<requests, favorites, isPaused, maxRequests, searchQuery>>
              ELSE UNCHANGED storeVars]_vars

------------------------------------------------------------------------------
\* Properties of stored records and the drawer (under DrawerSpec)

\* C7: a stored record is never changed: in every step a record that stays
\* in requests keeps every field, also when handleLoadFull loads its full body
\* (the content goes to the component's fullBody); and records leave requests
\* only by FIFO eviction (the oldest ones, in an addRequest or a setMaxRequests),
\* by removeRequest (the one id) or by clearRequests (all).
C7_RecordsImmutable ==
  [][LET left == Ids(requests) \ Ids(requests')
         oldest(k) == {requests[i].id : i \in 1..k}
     IN /\ \A i \in 1..Len(requests), j \in 1..Len(requests') :
             requests[i].id = requests'[j].id => requests[i] = requests'[j]
        /\ left /= {} =>
             \/ /\ AddRequestStep \/ SetMaxRequestsStep
                /\ \E k \in 1..Len(requests) : left = oldest(k)
             \/ \E id \in IdSpace : removeRequest(id) /\ left = {id}
             \/ clearRequests]_vars

\* C7 witness: the full body of the record the drawer shows has been loaded,
\* and the stored record still has no body and its deferred-load handle
C7_LoadedBesideStore ==
  /\ fullBody /= NULL
  /\ ~isLoading
  /\ bodyDisplayMounted
  /\ getRequestById(activeRequestId).getFullResponseBody
  /\ getRequestById(activeRequestId).responseBody = NULL
  /\ ~getRequestById(activeRequestId).hasFullResponseBody

------------------------------------------------------------------------------
\* Properties of the records capture and replay build

\* the history of a stored record
originOf(id) == CHOOSE o \in origin : o.id = id

\* live records: built by parseHarEntry from a traffic event
isLive(r) == ~r.isReplayed

\* C8 (under ReplaySpec): every record parseHarEntry or replayRequest built
\* that has hasFullResponseBody false has a deferred-load handle. A record
\* whose inline getContent delivered no content has neither.
C8_DeferredHasHandle ==
  \A r \in Range(requests) : ~r.hasFullResponseBody => r.getFullResponseBody

\* C9 as claimed (under CaptureSpec): a response of size s < MAX_BODY_SIZE has
\* its body fetched inline before admission, with hasFullResponseBody true; one
\* of size s >= MAX_BODY_SIZE, s = MAX_BODY_SIZE included, is admitted with no
\* body, hasFullResponseBody false and a deferred-load handle.
C9_ThresholdAsClaimed ==
  \A r \in Range(requests) :
    IF r.responseBodySize < MAX_BODY_SIZE
      THEN /\ originOf(r.id).content /= NotCalled
           /\ r.hasFullResponseBody
      ELSE /\ originOf(r.id).content = NotCalled
           /\ r.responseBody = NULL
           /\ ~r.hasFullResponseBody
           /\ r.getFullResponseBody

\* C9 amended (under CaptureSpec): a response of size s <= MAX_BODY_SIZE,
\* s = MAX_BODY_SIZE included, has getContent called before admission and gets
\* no handle: delivered content becomes the body with hasFullResponseBody true,
\* no content leaves the body absent with hasFullResponseBody false. Only a
\* response of size s > MAX_BODY_SIZE is admitted without calling getContent,
\* with no body, hasFullResponseBody false and a deferred-load handle.
C9_ThresholdInclusive ==
  \A r \in Range(requests) :
    LET content == originOf(r.id).content IN
    IF r.responseBodySize <= MAX_BODY_SIZE
      THEN /\ content /= NotCalled
           /\ ~r.getFullResponseBody
           /\ r.hasFullResponseBody = (content /= UNDEFINED)
           /\ r.responseBody = IF content /= UNDEFINED THEN content ELSE NULL
      ELSE /\ content = NotCalled
           /\ r.responseBody = NULL
           /\ ~r.hasFullResponseBody
           /\ r.getFullResponseBody

\* C9 witness: a record of size exactly MAX_BODY_SIZE stored with its body
\* loaded inline
C9_LimitLoadedInline ==
  \E r \in Range(requests) :
    /\ r.responseBodySize = MAX_BODY_SIZE
    /\ r.hasFullResponseBody
    /\ r.responseBody = "data"

\* C10 as claimed (under CaptureSpec): live records whose bodies were loaded
\* inline appear in requests in the order of their traffic events, whenever
\* their getContent callbacks run.
C10_InlineInEventOrder ==
  \A i, j \in 1..Len(requests) :
    (i < j /\ isLive(requests[i]) /\ isLive(requests[j])
       /\ requests[i].hasFullResponseBody
       /\ requests[j].hasFullResponseBody)
    => originOf(requests[i].id).ev < originOf(requests[j].id).ev

\* C10 amended (under CaptureSpec): live records admitted without a getContent
\* call (size above MAX_BODY_SIZE) appear in requests in the order of their
\* traffic events; a record loaded inline is admitted when its getContent
\* callback runs, so it may stand after records of later events.
C10_DeferredInEventOrder ==
  \A i, j \in 1..Len(requests) :
    (i < j /\ isLive(requests[i]) /\ isLive(requests[j])
       /\ originOf(requests[i].id).content = NotCalled
       /\ originOf(requests[j].id).content = NotCalled)
    => originOf(requests[i].id).ev < originOf(requests[j].id).ev

\* C10 witness: two deferred-path records of two events are stored
C10_TwoDeferredStored ==
  \E i, j \in 1..Len(requests) :
    /\ i < j
    /\ requests[i].getFullResponseBody /\ requests[j].getFullResponseBody
    /\ originOf(requests[i].id).ev < originOf(requests[j].id).ev

------------------------------------------------------------------------------
\* Properties of replay

\* C11 (under EditorSpec): the record of a successful replay meets the store
\* as it is when the fetch completes, by the rules of addRequest: a paused
\* store is left unchanged (the record is dropped); a store at capacity loses
\* its oldest record, whose id leaves favorites and selected, and gets the
\* replayed record at the end; otherwise the record is appended and nothing
\* else changes.
C11_ReplayAdmittedAsCaptured ==
  [][(nextId' = nextId + 1 /\ Cardinality(replays') < Cardinality(replays)) =>
       IF isPaused THEN UNCHANGED storeVars
       ELSE /\ Len(requests') > 0
            /\ requests'[Len(requests')].id = nextId
            /\ requests'[Len(requests')].isReplayed
            /\ UNCHANGED <<isPaused, maxRequests, searchQuery>>
            /\ IF Len(requests) >= maxRequests
                 THEN /\ idsOf(requests') = Append(Tail(idsOf(requests)), nextId)
                      /\ favorites' = favorites \ {requests[1].id}
                      /\ selected' = selected \ {requests[1].id}
                 ELSE /\ idsOf(requests') = Append(idsOf(requests), nextId)
                      /\ favorites' = favorites
                      /\ selected' = selected]_vars

\* C11 witness: a replay completed on a full store and evicted a record that
\* was a favorite or selected; the replayed record is the newest
C11_ReplayEvictedAndPurged ==
  /\ lastOp = "addRequest: evicted and purged"
  /\ requests /= <<>>
  /\ requests[Len(requests)].isReplayed

\* C12 (under EditorSpec): replayRequest settles by returning, never by
\* rejecting, and what it returns has exactly one of the two forms: success
\* true with a request and no error, or success false with an error message
\* and no request. For an invalid URL it returns the failure form "Invalid URL"
\* and no fetch is issued (replays holds the fetches issued and pending;
\* lastOp names the step just taken).
C12_ReplayResultForms ==
  /\ [](replayResult /= <<>> =>
          LET result == replayResult[1] IN
          /\ "success" \in DOMAIN result
          /\ IF result.success
               THEN /\ DOMAIN result = {"success", "request"}
                    /\ result.request.isReplayed
               ELSE /\ DOMAIN result = {"success", "error"}
                    /\ result.error \in STRING)
  /\ [][lastOp' = "handleReplay: invalid URL" =>
          /\ replays' = replays
          /\ replayResult' = <<[success |-> FALSE, error |-> "Invalid URL"]>>]_vars

\* C12 witness: a fetch threw something that is not an Error and the call
\* returned the failure form
C12_ThrownReturnedAsFailure ==
  /\ replayResult /= <<>>
  /\ ~replayResult[1].success
  /\ replayResult[1].error = "Request failed"

------------------------------------------------------------------------------
\* Properties of the sanitizer

enabledAndCompiling(r) == r.enabled /\ RegExpCompiles(r.pattern)

\* the text after the first k rules of the list, each enabled rule replacing
\* every match of its pattern in what the rules before it left
RECURSIVE foldOverRules(_, _, _)
foldOverRules(text, ruleList, k) ==
  IF k = 0 THEN text
  ELSE LET previous == foldOverRules(text, ruleList, k - 1)
       IN IF enabledAndCompiling(ruleList[k])
            THEN replace(previous, ruleList[k].pattern, ruleList[k].replacement)
            ELSE previous

\* C13 as stated: for every text and rule list, sanitizeValue(text, rules) is
\* the left-to-right fold over the rule list, disabled rules skipped, each
\* enabled rule replacing all case-insensitive matches of its pattern in the
\* output of the rule before it
C13_FoldForEveryText ==
  sanitizedValue /= <<>> =>
    sanitizedValue[1] = foldOverRules(inputValue, inputRules, Len(inputRules))

\* C13 (under SanitizeSpec): for a non-empty text, sanitizeValue(text, rules)
\* is the left-to-right fold over the rule list, disabled rules skipped, each
\* enabled rule replacing all case-insensitive matches of its pattern in the
\* output of the rule before it; the empty text is returned as it is, whatever
\* the rules; and with no enabled rule the result is the input
C13_FoldForNonEmptyText ==
  sanitizedValue /= <<>> =>
    /\ inputValue /= <<>> =>
         sanitizedValue[1] = foldOverRules(inputValue, inputRules, Len(inputRules))
    /\ inputValue = <<>> => sanitizedValue[1] = <<>>
    /\ (\A k \in 1..Len(inputRules) : ~inputRules[k].enabled) =>
         sanitizedValue[1] = inputValue

\* C13 witness: two enabled rules were applied in list order, the second to
\* the output of the first: in "Aab" the "ab" becomes "a", and then both
\* "A" and "a" become "b"
C13_TwoRulesInOrder ==
  /\ sanitizedValue = << <<"b","b">> >>
  /\ inputValue = <<"A","a","b">>
  /\ Len(inputRules) = 2
  /\ inputRules[1].id = "ab to a"
  /\ inputRules[2].id = "a to b"

\* C14 (under SanitizeSpec): an enabled rule whose pattern does not compile is
\* skipped and nothing else: sanitizeValue returns a text, and that text is
\* what sanitizeValue returns for the same list with that rule taken out, so
\* the valid rules before and after it are applied
C14_InvalidRuleSkipped ==
  sanitizedValue /= <<>> =>
    /\ DOMAIN sanitizedValue[1] = 1..Len(sanitizedValue[1])
    /\ \A k \in 1..Len(inputRules) :
         (inputRules[k].enabled /\ ~RegExpCompiles(inputRules[k].pattern)) =>
           sanitizedValue[1] = sanitizeValue(inputValue, withoutRule(inputRules, k))

\* C14 witness: the rule after one that does not compile was applied
C14_RuleAfterInvalidApplied ==
  /\ sanitizedValue = << <<"b","b">> >>
  /\ inputValue = <<"a","b">>
  /\ Len(inputRules) = 2
  /\ inputRules[1].id = "unclosed group"
  /\ inputRules[2].id = "a to b"

\* a match of the pattern somewhere in the text
hasMatch(text, pattern) ==
  /\ RegExpCompiles(pattern)
  /\ \E i \in 1..(Len(text) + 1) : matchesAt(text, pattern, i)

\* C15 as stated: for a rule list in which no rule's replacement text is
\* matched by any rule's pattern, sanitizing the sanitized text again returns
\* the sanitized text
C15_IdempotentUnlessReplacementMatched ==
  (/\ resanitizedValue /= <<>>
   /\ \A j, k \in 1..Len(inputRules) :
        ~hasMatch(inputRules[j].replacement, inputRules[k].pattern))
    => resanitizedValue = sanitizedValue

\* C15 (under SanitizeSpec): when the sanitized text holds no match of the
\* pattern of any enabled rule, sanitizing it again returns it as it is
C15_IdempotentOnceNothingMatches ==
  (/\ resanitizedValue /= <<>>
   /\ \A k \in 1..Len(inputRules) :
        inputRules[k].enabled => ~hasMatch(sanitizedValue[1], inputRules[k].pattern))
    => resanitizedValue = sanitizedValue

\* C15 witness: rules changed the text, no pattern of theirs matches what
\* they left, and the second pass returned it as it was
C15_SecondPassOverCleanText ==
  /\ resanitizedValue /= <<>>
  /\ resanitizedValue = sanitizedValue
  /\ sanitizedValue[1] /= inputValue
  /\ Len(inputRules) = 2
  /\ \A k \in 1..Len(inputRules) :
       /\ inputRules[k].enabled
       /\ hasMatch(inputValue, inputRules[k].pattern)
       /\ ~hasMatch(sanitizedValue[1], inputRules[k].pattern)

\* what sanitizeRequest makes of a body: null for null and for the empty
\* string, else the sanitized text
sanitizedBody(body, ruleList) ==
  IF body = <<>> \/ body[1] = <<>> THEN <<>>
  ELSE <<sanitizeValue(body[1], ruleList)>>

------------------------------------------------------------------------------
\* Properties of the settings store

\* C17 as stated: after any sequence of rule actions every default rule of
\* the initial list is in the list, the same but for its enabled flag and
\* its position
C17_DefaultRulesKept ==
  \A d \in 1..Len(DEFAULT_SANITIZATION_RULES) :
    \E k \in 1..Len(sanitizationRules) :
      LET was == DEFAULT_SANITIZATION_RULES[d]
          is == sanitizationRules[k]
      IN /\ is.id = was.id
         /\ is.isDefault
         /\ is.name = was.name
         /\ is.pattern = was.pattern
         /\ is.replacement = was.replacement

------------------------------------------------------------------------------
\* Properties of the context builder

truncationOccurred ==
  /\ contextRequests /= <<>>
  /\ estimateTokenCount(joinedSections(contextRequests)) > MAX_CONTEXT_TOKENS

TruncationNotices == {ContextTruncated, RequestDetailsTruncated, SomeRequestsTruncated}

\* the separator and the complete section of each of the first k requests
RECURSIVE firstSections(_, _)
firstSections(requestList, k) ==
  IF k = 0 THEN <<>>
  ELSE firstSections(requestList, k - 1) \o separator
       \o buildRequestSection(requestList[k], k)

\* C18 as stated: when buildContext truncates, what it returns is the
\* summary, then the complete sections of the first k requests for some k
\* (none, when k = 0), then a truncation notice; no section is cut
C18_OnlyWholeSections ==
  (context /= <<>> /\ truncationOccurred) =>
    \E k \in 0..Len(contextRequests), notice \in TruncationNotices :
      context[1] = buildSummarySection(contextRequests)
                   \o firstSections(contextRequests, k) \o notice

\* C19 (under ContextSpec): for a non-empty list of requests the text
\* buildContext returns starts with the whole summary, truncated or not, and
\* when truncation occurred it ends with a whole truncation notice
C19_SummaryFirstNoticeLast ==
  (context /= <<>> /\ contextRequests /= <<>>) =>
    /\ <<context[1][1]>> = buildSummarySection(contextRequests)
    /\ truncationOccurred =>
         <<context[1][Len(context[1])]>> \in TruncationNotices

\* C19 witness: a text cut at a request boundary starts with the summary
\* and ends with the notice, with one whole section between them
C19_CutAtBoundaryWithNotice ==
  /\ context /= <<>>
  /\ truncationOccurred
  /\ Len(contextRequests) = 3
  /\ context[1] = buildSummarySection(contextRequests)
                  \o firstSections(contextRequests, 1) \o SomeRequestsTruncated

\* C20 (under ContextSpec): the text buildContext returns is estimated at no
\* more than MAX_CONTEXT_TOKENS tokens, or it is the summary and a truncation
\* notice and nothing else
C20_WithinBudgetOrSummaryOnly ==
  context /= <<>> =>
    \/ estimateTokenCount(context[1]) <= MAX_CONTEXT_TOKENS
    \/ \E notice \in TruncationNotices :
         context[1] = buildSummarySection(contextRequests) \o notice

\* C20 witness: a text over the budget by one character was truncated, and
\* what is left of it is within the budget
C20_TruncatedIntoBudget ==
  /\ context /= <<>>
  /\ length(joinedSections(contextRequests)) = 4 * MAX_CONTEXT_TOKENS + 1
  /\ context[1] /= joinedSections(contextRequests)
  /\ estimateTokenCount(context[1]) <= MAX_CONTEXT_TOKENS
  /\ length(context[1]) > length(buildSummarySection(contextRequests)) + 41

\* C21 as stated: for every text and every budget, the estimate of what
\* truncateContext returns is no more than the estimate of the text
C21_EstimateNeverGrows ==
  truncatedContext /= <<>> =>
    estimateTokenCount(truncatedContext[1]) <= estimateTokenCount(contextText)

------------------------------------------------------------------------------
\* Properties of the classifier

\* the part of a URL after its origin and before its query
pathOf(url) ==
  LET afterOrigin == SubSeq(url, Len(getOrigin(url)) + 1, Len(url))
      queryAt == IF \E k \in 1..Len(afterOrigin) : afterOrigin[k] = "?"
                   THEN CHOOSE k \in 1..Len(afterOrigin) :
                          /\ afterOrigin[k] = "?"
                          /\ \A j \in 1..(k - 1) : afterOrigin[j] /= "?"
                   ELSE Len(afterOrigin) + 1
  IN SubSeq(afterOrigin, 1, queryAt - 1)

\* the rule for the GraphQL flag: the path holds /graphql, or the body is
\* JSON with a string query field, or the request is a POST of JSON to a
\* /graphql URL
flaggedByRule(x) ==
  \/ includes(pathOf(x.url), GraphqlPath)
  \/ /\ hasText(x.requestBody)
     /\ JSONParse(x.requestBody).type = "object"
     /\ JSONParse(x.requestBody).query = "string"
  \/ /\ x.method = POST
     /\ contentTypeOf(x.requestHeaders) /= <<>>
     /\ includes(contentTypeOf(x.requestHeaders)[1], ApplicationJson)
     /\ includes(x.url, GraphqlPath)

\* C22 as stated: the GraphQL flag of a record, captured or replayed, is
\* true exactly when the rule holds for the data it was built from
C22_FlagFollowsRule ==
  /\ capturedIsGraphQL /= <<>> => (capturedIsGraphQL[1] <=> flaggedByRule(exchange))
  /\ replayedIsGraphQL /= <<>> => (replayedIsGraphQL[1] <=> flaggedByRule(exchange))

------------------------------------------------------------------------------
\* Properties of the configured capacity

\* C23 as stated: the capture store holds no more records than the capacity
\* configured in the settings store, whether set by the slider or loaded
C23_StoreEnforcesConfiguredCapacity ==
  Len(requests) <= settingsMaxRequests

------------------------------------------------------------------------------
\* Properties of the chat

\* C24 as stated: no call to the model is made while the privacy warning has
\* not been acknowledged: every streamText call was made with
\* hasAcceptedPrivacyWarning true
C24_NoCallBeforeAcknowledged ==
  \A i \in DOMAIN modelCalls : modelCalls[i].hasAcceptedPrivacyWarning

hasContext(call) ==
  \E j \in DOMAIN call.messages :
    call.messages[j] = contextMessage(call.selectedRequests)

\* C25 as stated: every call to the model, on the first turn and on every
\* later one, has among its messages the context built from the requests
\* selected at the call
C25_EveryCallCarriesContext ==
  \A i \in DOMAIN modelCalls : hasContext(modelCalls[i])

\* C26 as stated: a message that was streaming when stop was invoked, whichever
\* component started its stream, is marked wasInterrupted once it streams no
\* more, and takes no chunk after the stop
C26_StoppedStreamInterrupted ==
  /\ \A i \in DOMAIN messages :
       (messages[i].id \in stoppedIds /\ <<messages[i].id>> # currentStreamingId)
         => messages[i].wasInterrupted
  /\ [][\A i \in DOMAIN messages :
          (messages[i].id \in stoppedIds /\ i \in DOMAIN messages')
            => messages'[i].content = messages[i].content]_vars

\* C29 as stated: the step on which a stream throws an error that is no abort
\* leaves the error set, isStreaming false, currentStreamingId null and the
\* message that was streaming marked wasInterrupted with its content kept
C29_FailedStreamMarkedInterrupted ==
  [][failedIds' # failedIds =>
       /\ error' # <<>>
       /\ ~isStreaming'
       /\ currentStreamingId' = <<>>
       /\ \A i \in DOMAIN messages :
            <<messages[i].id>> = currentStreamingId
              => /\ messages'[i].content = messages[i].content
                 /\ messages'[i].wasInterrupted]_vars

\* C30: in every state the chat store reaches through its actions isStreaming
\* is true exactly when currentStreamingId is not null, and an appendToStream
\* call made while currentStreamingId is null changes nothing of the store
C30_StreamingIffIdAndLateChunksDropped ==
  /\ [](isStreaming <=> currentStreamingId # <<>>)
  /\ [][(chatOp' = "appendToStream" /\ currentStreamingId = <<>>)
          => UNCHANGED chatStoreVars]_vars

\* a chunk arrived for an assistant message after its stream was finished, the
\* error set or the chat cleared and refilled
C30_ChunkAfterStreamEnded ==
  /\ chatOp = "appendToStream"
  /\ currentStreamingId = <<>>
  /\ ~isStreaming
  /\ \E i \in DOMAIN messages : messages[i].role = "assistant"

------------------------------------------------------------------------------
\* Properties of the panel opening on a page with traffic

\* C27 as stated: with scope "page", an event of the live listener that passes
\* its checks, and so is admitted, has the origin of the inspected page
C27_AdmittedEventsOfPageOrigin ==
  [][(/\ captureScope = "page"
      /\ isCapturing
      /\ Len(harLog') > Len(harLog)
      /\ inflight' /= inflight \/ nextId' /= nextId)
       => getOrigin(harLog'[Len(harLog')].url) = getOrigin(inspectedUrl)]_vars

isHistory(id) == \E h \in historyOrigin : h.id = id

\* the place in the log of the exchange a record was built from: events are
\* the exchanges that finished after the mount
exchangeOf(id) ==
  IF isHistory(id)
  THEN (CHOOSE h \in historyOrigin : h.id = id).ex
  ELSE Len(harLog) - evCount + (CHOOSE o \in origin : o.id = id).ev

\* C28 as stated: no two records of the store are built from the same
\* exchange, and no record of the history load stands after a record of a
\* live event whose exchange finished later
C28_OneRecordPerExchangeInOrder ==
  /\ \A i, j \in DOMAIN requests :
       i /= j => exchangeOf(requests[i].id) /= exchangeOf(requests[j].id)
  /\ \A i, j \in DOMAIN requests :
       (i < j /\ ~isHistory(requests[i].id) /\ isHistory(requests[j].id))
         => exchangeOf(requests[i].id) < exchangeOf(requests[j].id)

====
